---- MODULE Spec2Model ----
(***************************************************************************)
(* A model of midi2score: the numbered-notation note codec (note.c), the   *)
(* Standard MIDI File reader (midi.c): midi_open, midi_get_track, the      *)
(* event decoder with its static running status and the track iterator,    *)
(* and the converter midi_to_score (midi2score.c).                         *)
(*                                                                         *)
(* Bytes are the integers 0..255, a file is a sequence of bytes and a file *)
(* position is a 0-based offset into it.  uint8_t arithmetic is reduced    *)
(* modulo 2^8.  32-bit quantities stay below 2^31 for every file of the    *)
(* model (the first byte of a length field is below 128), so they are      *)
(* plain integers.  The host is little-endian, as btol_16 and btol_32      *)
(* assume.                                                                 *)
(*                                                                         *)
(* Specifications: SpecCodec (the note codec over its inputs), SpecRest    *)
(* (the codec, with notes the caller filled in as well), SpecVlq           *)
(* (midi_parse_delta_time over its inputs), SpecEvent (midi_parse_event    *)
(* over a stream of events), Spec (one thread opens a file, fetches tracks *)
(* and closes it), SpecTerm (the same on track chunks of any content, with *)
(* the running thread weakly fair), SpecConc (two threads, each with its   *)
(* own file, sharing the static running_cmd), SpecIter (midi_iter_track,   *)
(* midi_track_has_next and midi_track_next over a parsed track) and        *)
(* SpecConv (midi_to_score of midi2score.c over a file).                   *)
(***************************************************************************)
EXTENDS Integers, Sequences, FiniteSets, TLC

VARIABLES
    \* ---- note codec (note.c) ----
    key,          \* uint8_t key handed to the KeyTo... functions
    length,       \* uint8_t length class handed to the KeyTo... functions
    dot,          \* uint8_t dot handed to NumNotaiton_KeyToNote
    note,         \* Note_t returned by NumNotaiton_KeyToNote
    keyOut,       \* uint8_t returned by NumNotaiton_NoteToKeyNote(note)
    snote,        \* NoteSimplified_t returned by NumNotaiton_KeyToNoteSimp
    skeyOut,      \* uint8_t returned by NumNotaiton_NoteSimpToKeyNote(snote)
    cdone,        \* which of the four codec calls have returned; "caller" when
                  \* note and snote were filled in by the caller
    \* ---- MIDI reader (midi.c); t ranges over the threads of the process ----
    running_cmd,  \* static uint8_t running_cmd of midi_parse_event (one per process)
    file,         \* file[t]: the bytes of the file thread t opens
    fpos,         \* fpos[t]: position of midi->midi_file
    midi,         \* midi[t]: the midi_t handle and the caller's midi_t * to it
    pc,           \* pc[t]: where thread t is
    trk,          \* trk[t]: the midi_track_t midi_parse_track is filling
    bytes,        \* bytes[t]: unsigned int bytes of midi_parse_track
    ret,          \* ret[t]: what the last midi_get_track call returned
    \* ---- history (not program state) ----
    ev,           \* ev[t]: the last midi_parse_event call of the running fetch
    lastCmd,      \* the most recent command byte decoded in the process, -1 if none
    trkCmd,       \* trkCmd[t]: the most recent command byte of the track being decoded
    metaSince,    \* metaSince[t]: a meta event was decoded after that command byte
    hist,         \* hist[t]: the midi_get_track calls that returned, in order
    \* ---- midi_parse_delta_time called on its own ----
    vlqIn,        \* the bytes of the file from the read position on
    vlqVal,       \* the tick count vlqIn encodes, -1 when vlqIn encodes none
    vlqOut,       \* what midi_parse_delta_time returned
    vlqDone,      \* the call has returned
    \* ---- midi_parse_event called on its own ----
    evSrc,        \* the events evIn was encoded from: [delta, tail] each
    evIn,         \* the bytes of the file
    evPos,        \* position of the file
    evOut,        \* the last midi_parse_event call: where it started, what it returned
    \* ---- iteration over a returned track ----
    itrk,         \* the midi_track_t midi_get_track returned
    itrk0,        \* itrk as it was when midi_get_track returned it
    cur,          \* trk->cur: index of a node of the list, 0 for NULL
    walk,         \* the events midi_track_next returned since the last restart
    walks,        \* the walks that reached the end of the list, in order
    restartAt,    \* events returned before the last midi_iter_track call, -1 if none
    hasNext,      \* the last midi_track_has_next call and what it returned
    istate,       \* "live", or "crashed" after a read through a NULL cursor
    icalls,       \* calls made on the track so far
    \* ---- midi_to_score (midi2score.c) ----
    cfile,        \* the bytes of the file midi_to_score converts
    conv          \* the statics and locals of midi_to_score, and where it is

codecVars == <<key, length, dot, note, keyOut, snote, skeyOut, cdone>>

midiVars == <<running_cmd, file, fpos, midi, pc, trk, bytes, ret>>

histVars == <<ev, lastCmd, trkCmd, metaSince, hist>>

vlqVars == <<vlqIn, vlqVal, vlqOut, vlqDone>>

evtVars == <<evSrc, evIn, evPos, evOut>>

iterVars == <<itrk, itrk0, cur, walk, walks, restartAt, hasNext, istate, icalls>>

convVars == <<cfile, conv>>

extVars == <<evtVars, iterVars, convVars>>

vars == <<codecVars, midiVars, histVars, vlqVars, extVars>>

(***************************************************************************)
(* Integer helpers                                                         *)
(***************************************************************************)
U8(n) == n % 256

\* bit b (0 = least significant) of the non-negative integer n
RECURSIVE Pow2(_)
Pow2(b) == IF b = 0 THEN 1 ELSE 2 * Pow2(b - 1)

Bit(n, b) == (n \div Pow2(b)) % 2

(***************************************************************************)
(* note.c                                                                  *)
(***************************************************************************)
KEY_PIANO_24 == 24
KEY_PIANO_48 == 48
KEY_PIANO_60 == 60
KEY_PIANO_96 == 96
KEY_PIANO_108 == 108
KEY_OFFSET_PER_DEGREE == 12

\* const uint8_t offset[] = { 0, 2, 4, 5, 7, 9, 11 }
offset == <<0, 2, 4, 5, 7, 9, 11>>

\* Mutant: the table has no sharps, every black key is the degree below it.
noteSharpMap_NoSharps ==
    << [note |-> 1, sharp |-> 0], [note |-> 1, sharp |-> 0],
       [note |-> 2, sharp |-> 0], [note |-> 2, sharp |-> 0],
       [note |-> 3, sharp |-> 0], [note |-> 4, sharp |-> 0],
       [note |-> 4, sharp |-> 0], [note |-> 5, sharp |-> 0],
       [note |-> 5, sharp |-> 0], [note |-> 6, sharp |-> 0],
       [note |-> 6, sharp |-> 0], [note |-> 7, sharp |-> 0] >>

\* struct NoteSharp noteSharpMap[12], indexed from 1 here (C index + 1)
noteSharpMap ==
    << [note |-> 1, sharp |-> 0], [note |-> 1, sharp |-> 1],
       [note |-> 2, sharp |-> 0], [note |-> 2, sharp |-> 1],
       [note |-> 3, sharp |-> 0], [note |-> 4, sharp |-> 0],
       [note |-> 4, sharp |-> 1], [note |-> 5, sharp |-> 0],
       [note |-> 5, sharp |-> 1], [note |-> 6, sharp |-> 0],
       [note |-> 6, sharp |-> 1], [note |-> 7, sharp |-> 0] >>

\* octaveMap[8] of NumNotaiton_KeyToNote, indexed from 1 here (C index + 1)
octaveMap ==
    << [oct2 |-> 1, octaves |-> 3], [oct2 |-> 1, octaves |-> 2],
       [oct2 |-> 0, octaves |-> 1], [oct2 |-> 0, octaves |-> 0],
       [oct2 |-> 0, octaves |-> 3], [oct2 |-> 0, octaves |-> 2],
       [oct2 |-> 1, octaves |-> 1], [oct2 |-> 1, octaves |-> 0] >>

\* octaves[4] of NumNotaiton_KeyToNoteSimp, indexed from 1 here (C index + 1)
octavesSimp == <<1, 0, 3, 2>>

\* memset(&note, 0, sizeof(note)) on a Note_t
NoteZero ==
    [note |-> 0, sharp |-> 0, length |-> 0, octaves |-> 0, oct2 |-> 0,
     len2 |-> 0, dot |-> 0, rfu |-> 0, expression |-> 0, dynamics |-> 0]

\* memset(&note, 0, sizeof(note)) on a NoteSimplified_t
NoteSimpZero == [note |-> 0, sharp |-> 0, length |-> 0, octaves |-> 0]

\* Contents of the bit-fields NumNotaiton_KeyToNote never assigns in its
\* local (uninitialised) Note_t: any values the stack may hold.
NoteGarbage ==
    { [rfu |-> 0, expression |-> 0, dynamics |-> 0],
      [rfu |-> 1, expression |-> 3, dynamics |-> 2] }

\* uint8_t octOffset of NumNotaiton_NoteToKeyNote
NoteOctOffset(n) ==
    IF n.oct2 # 0
    THEN (IF Bit(n.octaves, 1) = 1 THEN U8(n.octaves - 4) ELSE U8(4 - n.octaves))
    ELSE (IF Bit(n.octaves, 1) = 1 THEN U8(4 - n.octaves) ELSE U8(0 - n.octaves))

NumNotaiton_NoteToKeyNote(n) ==
    IF n.note = 0
    THEN 0
    ELSE U8(KEY_PIANO_60 + offset[n.note] + n.sharp
            + NoteOctOffset(n) * KEY_OFFSET_PER_DEGREE)

\* Mutant of the simplified octave decoding: the sign of the low octave is lost.
SimpOctOffset_Unsigned(n) ==
    IF Bit(n.octaves, 1) = 1 THEN U8(4 - n.octaves) ELSE U8(n.octaves)

\* uint8_t octOffset of NumNotaiton_NoteSimpToKeyNote
SimpOctOffset(n) ==
    IF Bit(n.octaves, 1) = 1 THEN U8(4 - n.octaves) ELSE U8(0 - n.octaves)

NumNotaiton_NoteSimpToKeyNote(n) ==
    IF n.note = 0
    THEN 0
    ELSE U8(KEY_PIANO_60 + offset[n.note] + n.sharp
            + SimpOctOffset(n) * KEY_OFFSET_PER_DEGREE)

\* g: the indeterminate contents of the fields the function leaves unassigned
NumNotaiton_KeyToNote(k, len, d, g) ==
    IF k < KEY_PIANO_24 \/ k >= KEY_PIANO_108
    THEN NoteZero
    ELSE [note       |-> noteSharpMap[(k % 12) + 1].note,
          sharp      |-> noteSharpMap[(k % 12) + 1].sharp,
          dot        |-> (IF d # 0 THEN 1 ELSE 0),
          length     |-> len % 4,
          len2       |-> Bit(len, 2),
          octaves    |-> octaveMap[((k - KEY_PIANO_24) \div 12) + 1].octaves,
          oct2       |-> octaveMap[((k - KEY_PIANO_24) \div 12) + 1].oct2,
          rfu        |-> g.rfu,
          expression |-> g.expression,
          dynamics   |-> g.dynamics]

\* Mutant: a key outside [48,96) is moved to the nearest octave of the
\* domain instead of being returned as a rest.
NumNotaiton_KeyToNoteSimp_Clamped(k, len) ==
    LET kk == IF k < KEY_PIANO_48 THEN KEY_PIANO_48 + (k % 12)
              ELSE IF k >= KEY_PIANO_96 THEN KEY_PIANO_96 - 12 + (k % 12)
              ELSE k
    IN  [note    |-> noteSharpMap[(kk % 12) + 1].note,
         sharp   |-> noteSharpMap[(kk % 12) + 1].sharp,
         length  |-> len % 4,
         octaves |-> octavesSimp[((kk - KEY_PIANO_48) \div 12) + 1]]

NumNotaiton_KeyToNoteSimp(k, len) ==
    IF k < KEY_PIANO_48 \/ k >= KEY_PIANO_96
    THEN NoteSimpZero
    ELSE [note    |-> noteSharpMap[(k % 12) + 1].note,
          sharp   |-> noteSharpMap[(k % 12) + 1].sharp,
          length  |-> len % 4,
          octaves |-> octavesSimp[((k - KEY_PIANO_48) \div 12) + 1]]

(***************************************************************************)
(* midi.c: reading                                                         *)
(***************************************************************************)
MIDI_HEADER_SIZE == 14
MIDI_TRACK_HEADER_SIZE == 8
MIDI_EVENT_TYPE_EVENT == 0
MIDI_EVENT_TYPE_META == 1
MIDI_EVENT_PROGRAM_CHANGE == 12
MIDI_EVENT_CHANNEL_PRESSURE == 13
EINVAL == 22
ENOMEM == 12

MIDI_HEADER_MAGIC == <<77, 84, 104, 100>>    \* 'M', 'T', 'h', 'd'
MIDI_TRACK_MAGIC  == <<77, 84, 114, 107>>    \* 'M', 'T', 'r', 'k'

Min(a, b) == IF a < b THEN a ELSE b

\* fread(&b, 1, 1, file) at position p: the number of items read
ReadCnt(f, p) == IF p < Len(f) THEN 1 ELSE 0

\* ... and what b holds afterwards, when it held old before
ReadByte(f, p, old) == IF p < Len(f) THEN f[p + 1] ELSE old

\* the bytes f[p .. p+n-1] (0-based p), all of them in the file
Bytes(f, p, n) == [i \in 1 .. n |-> f[p + i]]

\* Mutant: the two bytes are taken in the order of the host.
btol_16_NoSwap(b) == b[2] * 256 + b[1]

\* btol_16(*(uint16_t*)buf) on the little-endian host the code is written for
btol_16(b) == b[1] * 256 + b[2]

btol_32(b) == ((b[1] * 256 + b[2]) * 256 + b[3]) * 256 + b[4]

midi_check_magic(expected, check) == check = expected

\* midi_parse_division on the 16 bits of hdr->division
\* Mutant: every frame code is taken as a number of frames per second.
midi_parse_division_AnyFps(division) ==
    IF Bit(division, 15) = 0
    THEN division % 32768
    ELSE ((256 - ((division \div 256) % 256)) * (division % 128)) % 65536

midi_parse_division(division) ==
    IF Bit(division, 15) = 0
    THEN division % 32768
    ELSE LET fps == ((division \div 256) % 256) - 256    \* (int8_t), bit 7 is set
         IN  IF fps = -24 \/ fps = -25
             THEN ((0 - fps) * (division % 128)) % 65536
             ELSE IF fps = -29 \/ fps = -30
                  THEN (30 * (division % 128)) % 65536
                  ELSE 0

\* midi_parse_hdr: [ok, hdr, pos]
midi_parse_hdr(f, p) ==
    IF Len(f) - p < MIDI_HEADER_SIZE
    THEN [ok |-> FALSE, pos |-> IF p < Len(f) THEN Len(f) ELSE p,
          hdr |-> [length |-> 0, format |-> 0, tracks |-> 0, division |-> 0]]
    ELSE IF ~ midi_check_magic(MIDI_HEADER_MAGIC, Bytes(f, p, 4))
         THEN [ok |-> FALSE, pos |-> p + MIDI_HEADER_SIZE,
               hdr |-> [length |-> 0, format |-> 0, tracks |-> 0, division |-> 0]]
         ELSE [ok |-> TRUE, pos |-> p + MIDI_HEADER_SIZE,
               hdr |-> [length   |-> btol_32(Bytes(f, p + 4, 4)),
                        format   |-> btol_16(Bytes(f, p + 8, 2)),
                        tracks   |-> btol_16(Bytes(f, p + 10, 2)),
                        division |-> btol_16(Bytes(f, p + 12, 2))]]

\* midi_parse_track_hdr: [ok, hdr, pos, errmsg]
midi_parse_track_hdr(f, p) ==
    IF Len(f) - p < MIDI_TRACK_HEADER_SIZE
    THEN [ok |-> FALSE, pos |-> IF p < Len(f) THEN Len(f) ELSE p,
          hdr |-> [magic |-> <<0, 0, 0, 0>>, size |-> 0],
          errmsg |-> "fread() failed to read track header."]
    ELSE LET h == [magic |-> Bytes(f, p, 4), size |-> btol_32(Bytes(f, p + 4, 4))]
         IN  IF ~ midi_check_magic(MIDI_TRACK_MAGIC, h.magic)
             THEN [ok |-> FALSE, pos |-> p + MIDI_TRACK_HEADER_SIZE, hdr |-> h,
                   errmsg |-> "track has bad magic."]
             ELSE [ok |-> TRUE, pos |-> p + MIDI_TRACK_HEADER_SIZE, hdr |-> h,
                   errmsg |-> ""]

\* the do-while loop of midi_parse_delta_time, entered with `read` bytes done
\* Mutant: the continuation bit is not masked off before the byte is added.
DeltaStep_KeepsHighBit(delta_time, tmp) == delta_time * 128 + tmp

\* tmp[read] &= 0x7F; delta_time = (delta_time << 7) | tmp[read]
DeltaStep(delta_time, tmp) == delta_time * 128 + (tmp % 128)

\* Mutant: the loop gives up after three bytes.
DeltaMore_CapAt3(tmp, read) == tmp >= 128 /\ read < 3

\* while (more && read < 4), read already incremented
DeltaMore(tmp, read) == tmp >= 128 /\ read < 4

RECURSIVE DeltaLoop(_, _, _, _)
DeltaLoop(f, p, read, delta_time) ==
    LET tmp  == ReadByte(f, p, 0)                \* uint8_t tmp[4] = { 0 }
        p2   == p + ReadCnt(f, p)
        d2   == DeltaStep(delta_time, tmp)
    IN  IF DeltaMore(tmp, read + 1)
        THEN DeltaLoop(f, p2, read + 1, d2)
        ELSE [delta_time |-> d2, read |-> read + 1, pos |-> p2]

\* Mutant: *bytes grows by the bytes fread delivered, not by read.
midi_parse_delta_time_CountsFread(f, p) ==
    LET r == DeltaLoop(f, p, 0, 0) IN [r EXCEPT !.read = r.pos - p]

\* midi_parse_delta_time: [delta_time, read (added to *bytes), pos]
midi_parse_delta_time(f, p) == DeltaLoop(f, p, 0, 0)

\* Mutant: the status byte 0xFF is not kept away from the running status.
NextRunning_MetaSets(cmdchan, rc) ==
    IF Bit(cmdchan \div 16, 3) = 1 THEN cmdchan \div 16 ELSE rc

\* running_cmd after an event whose status byte is cmdchan
NextRunning(cmdchan, rc) ==
    IF cmdchan = 255
    THEN rc
    ELSE IF Bit(cmdchan \div 16, 3) = 1 THEN cmdchan \div 16 ELSE rc

\* cmd of a channel event: the status byte's nibble, or the running command
EventCmd(cmdchan, rc) ==
    IF Bit(cmdchan \div 16, 3) = 0 THEN rc ELSE cmdchan \div 16

\* Mutant: every channel command is given two argument bytes.
EventArgn_Always2(cmd) == 2

\* argn of a channel event
EventArgn(cmd) ==
    IF cmd = MIDI_EVENT_PROGRAM_CHANGE \/ cmd = MIDI_EVENT_CHANNEL_PRESSURE
    THEN 1
    ELSE 2

\* Mutant: the size of a channel event is argc as it was before the reads.
EventSize_Initial(argc, argn) == argc

\* event.size of a channel event: (uint8_t)argc once the for loop has run
\* argc up to argn
EventSize(argc, argn) == IF argc < argn THEN argn ELSE argc

\* Mutant: the data bytes of a meta event are not counted.
MetaBytes_NoData(read, got, size) == read + got

\* what a meta event adds to *bytes: the delta time's bytes, the returns of
\* the three one-byte fread calls, and size
MetaBytes(read, got, size) == read + got + size

NoEvent ==
    [delta_time |-> 0, type |-> 0, cmd |-> 0, chan |-> 0, size |-> 0, data |-> <<>>]

\* midi_parse_event at position p with running_cmd = rc.  u is the value of
\* every byte the call uses without having set it (a local or malloc'ed byte
\* that a failed fread left alone).
\* [ok (a node is returned), event, pos, nbytes (added to *bytes), asked (the
\*  bytes its fread calls asked for), rc, errnum, errmsg]
midi_parse_event(f, p, rc, u) ==
    LET dt      == midi_parse_delta_time(f, p)
        cmdchan == ReadByte(f, dt.pos, 0)          \* uint8_t cmdchan = 0
        n0      == ReadCnt(f, dt.pos)
        p0      == dt.pos + n0
    IN  IF cmdchan = 255
        THEN LET cmd   == ReadByte(f, p0, u)
                 p1    == p0 + ReadCnt(f, p0)
                 size  == ReadByte(f, p1, u)
                 p2    == p1 + ReadCnt(f, p1)
                 avail == IF p2 < Len(f) THEN Min(size, Len(f) - p2) ELSE 0
             IN  [ok     |-> TRUE,
                  event  |-> [delta_time |-> dt.delta_time,
                              type  |-> MIDI_EVENT_TYPE_META,
                              cmd   |-> cmd,
                              chan  |-> 0,
                              size  |-> size,
                              data  |-> [i \in 1 .. size |->
                                            IF i <= avail THEN f[p2 + i] ELSE u]],
                  pos    |-> p2 + avail,
                  nbytes |-> MetaBytes(dt.read, n0 + (p2 - p0), size),
                  asked  |-> dt.read + 1 + 2 + size,
                  rc     |-> NextRunning(cmdchan, rc),
                  errnum |-> 0,
                  errmsg |-> ""]
        ELSE LET cmd  == EventCmd(cmdchan, rc)
                 chan == cmdchan % 16
                 argc == IF Bit(cmdchan \div 16, 3) = 0 THEN 1 ELSE 0
                 argn == EventArgn(cmd)
                 \* the reads of the for loop, one byte each
                 pa   == p0 + (IF argc < argn THEN ReadCnt(f, p0) ELSE 0)
                 pb   == pa + (IF argc + 1 < argn THEN ReadCnt(f, pa) ELSE 0)
                 args == IF argc = 1
                         THEN <<cmdchan, ReadByte(f, p0, u)>>
                         ELSE <<ReadByte(f, p0, u), ReadByte(f, pa, u)>>
             IN  IF Bit(cmd, 3) = 0
                 THEN [ok     |-> FALSE,
                       event  |-> NoEvent,
                       pos    |-> p0,
                       nbytes |-> dt.read + n0,
                       asked  |-> dt.read + 1,
                       rc     |-> NextRunning(cmdchan, rc),
                       errnum |-> EINVAL,
                       errmsg |-> "Invalid command, but none running :(."]
                 ELSE [ok     |-> TRUE,
                       event  |-> [delta_time |-> dt.delta_time,
                                   type  |-> MIDI_EVENT_TYPE_EVENT,
                                   cmd   |-> cmd,
                                   chan  |-> chan,
                                   size  |-> EventSize(argc, argn),
                                   data  |-> SubSeq(args, 1, argn)],
                       pos    |-> pb,
                       nbytes |-> dt.read + n0 + (pb - p0),
                       asked  |-> dt.read + 1 + (argn - argc),
                       rc     |-> NextRunning(cmdchan, rc),
                       errnum |-> 0,
                       errmsg |-> ""]

(***************************************************************************)
(* midi.c: tracks                                                          *)
(***************************************************************************)
NoTrackHdr == [magic |-> <<0, 0, 0, 0>>, size |-> 0]

\* a midi_track_t; list is the chain head, head->next, ... up to NULL, and
\* an empty list with events = 0 is a track whose head was never assigned
NoTrack == [hdr |-> NoTrackHdr, events |-> 0, num |-> 0, list |-> <<>>]

\* what midi_get_track returns: NULL or the track
RetNone      == [kind |-> "none", track |-> NoTrack]
RetNull      == [kind |-> "NULL", track |-> NoTrack]
RetTrack(tr) == [kind |-> "track", track |-> tr]

\* the for loop of midi_get_track: n track chunks skipped from position p
RECURSIVE SkipTracks(_, _, _)
SkipTracks(f, p, n) ==
    IF n = 0
    THEN [ok |-> TRUE, pos |-> p, errmsg |-> ""]
    ELSE LET h == midi_parse_track_hdr(f, p)
         IN  IF h.ok
             THEN SkipTracks(f, h.pos + h.hdr.size, n - 1)   \* fseek(.., SEEK_CUR)
             ELSE [ok |-> FALSE, pos |-> h.pos, errmsg |-> h.errmsg]

\* midi_get_track up to the first midi_parse_event call:
\* stage "skipfail" (NULL before the track is allocated), "hdrfail" (the
\* header of the requested track is refused) or "events".
TrackStart(f, trk_offset, track_idx) ==
    LET s == SkipTracks(f, trk_offset, track_idx)
        h == midi_parse_track_hdr(f, s.pos)
    IN  IF ~ s.ok
        THEN [stage |-> "skipfail", pos |-> s.pos, hdr |-> NoTrackHdr,
              errmsg |-> s.errmsg]
        ELSE IF ~ h.ok
             THEN [stage |-> "hdrfail", pos |-> h.pos, hdr |-> h.hdr,
                   errmsg |-> h.errmsg]
             ELSE [stage |-> "events", pos |-> h.pos, hdr |-> h.hdr, errmsg |-> ""]

\* the node appended to the list, trk->events incremented
AddEvent(tr, e) ==
    [tr EXCEPT !.list = Append(tr.list, e), !.events = tr.events + 1]

\* the loop condition of midi_parse_track
MoreEvents(by, tr) == by < tr.hdr.size

\* the first midi_parse_event call and the while loop of midi_parse_track,
\* run to the end: what midi_get_track returns, running_cmd afterwards,
\* the final value of bytes and the final file position
RECURSIVE EventLoop(_, _, _, _, _, _)
EventLoop(f, p, rc, u, tr, by) ==
    LET r == midi_parse_event(f, p, rc, u)
    IN  IF ~ r.ok
        THEN [ret |-> RetNull, rc |-> r.rc, by |-> by + r.nbytes, pos |-> r.pos]
        ELSE IF MoreEvents(by + r.nbytes, tr)
             THEN EventLoop(f, r.pos, r.rc, u, AddEvent(tr, r.event), by + r.nbytes)
             ELSE [ret |-> RetTrack(AddEvent(tr, r.event)), rc |-> r.rc,
                   by |-> by + r.nbytes, pos |-> r.pos]

\* midi_get_track as one call that returns: [ret, rc]
midi_get_track(f, trk_offset, track_idx, rc, u) ==
    LET s == TrackStart(f, trk_offset, track_idx)
    IN  IF s.stage # "events"
        THEN [ret |-> RetNull, rc |-> rc, by |-> 0, pos |-> s.pos]
        ELSE EventLoop(f, s.pos, rc, u,
                       [hdr |-> s.hdr, events |-> 0, num |-> track_idx, list |-> <<>>],
                       0)

\* successive midi_get_track calls of one caller that has the process to itself
RECURSIVE GetTracksAlone(_, _, _, _, _)
GetTracksAlone(f, trk_offset, idxs, rc, u) ==
    IF idxs = <<>>
    THEN <<>>
    ELSE LET r == midi_get_track(f, trk_offset, Head(idxs), rc, u)
         IN  <<r.ret>> \o GetTracksAlone(f, trk_offset, Tail(idxs), r.rc, u)

(***************************************************************************)
(* The files of the model.  A file is a header chunk and track chunks      *)
(* whose bodies are made of whole encoded events; the last chunk may       *)
(* declare one byte less or more than it holds.  TruncFiles adds the files *)
(* that end in the middle of an event.                                     *)
(***************************************************************************)
MaxEvents  == 3      \* encoded events in a file
MaxTracks  == 2      \* track chunks in a file, and track indices asked for
MaxFetches == 2      \* midi_get_track calls on one handle

\* values of a byte that is used without having been set
Garbage == {0, 9}

ItemBytes ==
    << <<0, 144, 60, 64>>,              \* delta 0, Note-On ch 0, key 60, vel 64
       <<0, 62, 80>>,                   \* delta 0, running status: 62, 80
       <<0, 255, 81, 3, 7, 161, 32>>,   \* delta 0, meta 0x51 (tempo), 3 bytes
       <<129, 0, 193, 5>> >>            \* delta 128, Program-Change ch 1, 5

ItemSeqs(n) == UNION { [1 .. k -> 1 .. Len(ItemBytes)] : k \in 0 .. n }

RECURSIVE Concat(_)
Concat(ss) == IF ss = <<>> THEN <<>> ELSE Head(ss) \o Concat(Tail(ss))

BE16(n) == <<(n \div 256) % 256, n % 256>>
BE32(n) == <<0, (n \div 65536) % 256, (n \div 256) % 256, n % 256>>

HeaderChunk(ntrk) ==
    MIDI_HEADER_MAGIC \o BE32(6) \o BE16(1) \o BE16(ntrk) \o BE16(480)

TrackChunk(body, declared) == MIDI_TRACK_MAGIC \o BE32(declared) \o body

\* the ways to cut n events into 1 .. MaxTracks consecutive tracks
CutsOf(n) ==
    UNION { { c \in [1 .. (k - 1) -> 0 .. n] :
                \A j \in 1 .. (k - 2) : c[j] <= c[j + 1] } : k \in 1 .. MaxTracks }

Skews == {-1, 0, 1}

MkFile(s, c, skew) ==
    LET ntrk    == Len(c) + 1
        lo(j)   == IF j = 1 THEN 0 ELSE c[j - 1]
        hi(j)   == IF j = ntrk THEN Len(s) ELSE c[j]
        body(j) == Concat([i \in 1 .. (hi(j) - lo(j)) |-> ItemBytes[s[lo(j) + i]]])
        decl(j) == IF j = ntrk /\ Len(body(j)) + skew >= 0
                   THEN Len(body(j)) + skew
                   ELSE Len(body(j))
    IN  HeaderChunk(ntrk)
        \o Concat([j \in 1 .. ntrk |-> TrackChunk(body(j), decl(j))])

FilesWith(n, skews) ==
    UNION { UNION { { MkFile(s, c, k) : k \in skews } : c \in CutsOf(Len(s)) }
            : s \in ItemSeqs(n) }

Files(n) == FilesWith(n, Skews)

\* Files whose header chunk varies: its declared length (with the padding
\* it announces), format, track count and division.  Track j holds one
\* Note-On (odd j) or one Program-Change (even j).
HdrLengths == {6, 7, 248, 250}

\* 0xE728: -25 frames/s, 40 ticks/frame; 0xFF28: frame code -1, 40 ticks/frame
HdrDivisions == {96, 480, 59176, 65320}

PadChunk(len, format, ntrk, division) ==
    MIDI_HEADER_MAGIC \o BE32(len) \o BE16(format) \o BE16(ntrk) \o BE16(division)
        \o [i \in 1 .. (len - 6) |-> 0]

HdrFiles ==
    { PadChunk(hf[1], hf[2], hf[3], hf[4])
        \o Concat([j \in 1 .. hf[3] |->
                     LET body == ItemBytes[IF j % 2 = 1 THEN 1 ELSE 4]
                     IN  TrackChunk(body, Len(body))])
      : hf \in HdrLengths \X {0, 1} \X (1 .. MaxTracks) \X HdrDivisions }

\* Files midi_parse_hdr refuses (too short, wrong magic), and one whose
\* header declares less than its 6 data bytes
BadHdrFiles ==
    { SubSeq(HeaderChunk(1), 1, k) : k \in {0, 4, 13} }
    \cup { MIDI_TRACK_MAGIC \o SubSeq(HeaderChunk(1), 5, 14)
             \o TrackChunk(ItemBytes[1], 4),
           MIDI_HEADER_MAGIC \o BE32(5) \o BE16(1) \o BE16(1) \o BE16(480)
             \o TrackChunk(ItemBytes[1], 4) }

\* Files with two track chunks of which one carries the tag "MThd"
BadTrackFiles ==
    LET good == TrackChunk(ItemBytes[1], 4)
        bad  == MIDI_HEADER_MAGIC \o BE32(4) \o ItemBytes[1]
    IN  { HeaderChunk(2) \o bad \o good, HeaderChunk(2) \o good \o bad }

\* Files that end inside an event: one track whose chunk declares the whole
\* body, cut off after each byte of its last event in turn.
MaxTruncEvents == 2  \* encoded events in the body that is cut off

TruncFiles ==
    UNION { LET body == Concat([i \in 1 .. Len(s) |-> ItemBytes[s[i]]])
                last == Len(ItemBytes[s[Len(s)]])
            IN  { HeaderChunk(1) \o TrackChunk(SubSeq(body, 1, k), Len(body))
                    : k \in (Len(body) - last + 1) .. (Len(body) - 1) }
            : s \in ItemSeqs(MaxTruncEvents) \ {<<>>} }

(***************************************************************************)
(* Threads and handles                                                     *)
(***************************************************************************)
Threads == {1, 2}

\* calloc(sizeof **midi, 1), and the caller's pointer: "NULL", "valid", or
\* "freed" (it points at a handle midi_close has freed).  isopen: the FILE
\* fopen returned is open; closes: the fclose calls made on it; retval: what
\* midi_open returned.
MidiZero ==
    [ptr |-> "NULL", isopen |-> FALSE, closes |-> 0, retval |-> 0,
     hdr |-> [length |-> 0, format |-> 0, tracks |-> 0, division |-> 0],
     ppq |-> 0, trk_offset |-> 0, errnum |-> 0, errmsg |-> <<>>]

EvNone ==
    [valid |-> FALSE, got |-> 0, status |-> 0, ok |-> FALSE, event |-> NoEvent,
     rcBefore |-> 0, prevCmd |-> -1, prevTrkCmd |-> -1, metaBefore |-> FALSE,
     posStatus |-> 0, posAfter |-> 0]

MidiIdle ==
    /\ running_cmd = 0
    /\ file = [t \in Threads |-> <<>>]
    /\ fpos = [t \in Threads |-> 0]
    /\ midi = [t \in Threads |-> MidiZero]
    /\ pc = [t \in Threads |-> "off"]
    /\ trk = [t \in Threads |-> NoTrack]
    /\ bytes = [t \in Threads |-> 0]
    /\ ret = [t \in Threads |-> RetNone]
    /\ ev = [t \in Threads |-> EvNone]
    /\ lastCmd = -1
    /\ trkCmd = [t \in Threads |-> -1]
    /\ metaSince = [t \in Threads |-> FALSE]
    /\ hist = [t \in Threads |-> <<>>]

VlqNone == [delta_time |-> 0, read |-> 0, pos |-> 0, cmdchan |-> 0]

VlqIdle ==
    /\ vlqIn = <<>>
    /\ vlqVal = -1
    /\ vlqOut = VlqNone
    /\ vlqDone = FALSE

EvOutNone ==
    [called |-> FALSE, start |-> 0, rcBefore |-> 0, ok |-> FALSE,
     event |-> NoEvent, pos |-> 0, nbytes |-> 0, asked |-> 0]

EvtIdle ==
    /\ evSrc = <<>>
    /\ evIn = <<>>
    /\ evPos = 0
    /\ evOut = EvOutNone

HasNextNone == [called |-> FALSE, value |-> FALSE]

IterIdle ==
    /\ itrk = NoTrack
    /\ itrk0 = NoTrack
    /\ cur = 0
    /\ walk = <<>>
    /\ walks = <<>>
    /\ restartAt = -1
    /\ hasNext = HasNextNone
    /\ istate = "off"
    /\ icalls = 0

\* static uint8_t score[512]
ScoreSize == 512

\* the statics of midi2score.c as the program starts, and the locals of
\* midi_to_score before it is called.  midi: the handle midi_open gave;
\* track, cur: the track being fetched or walked and its cursor; fp, by:
\* the file position and unsigned int bytes of the fetch; spilled: bytes
\* written past the end of score; written: the score went to the .ssc
\* file.  History: last (the event the tempo loop handled last), notes
\* (the events of the note track, once it has been walked), emitted (for
\* each note byte stored: its write position, the byte, the index of its
\* event in the note track)
ConvZero ==
    [pc |-> "off", midi |-> MidiZero, ppq |-> 960, tempo |-> 500000,
     score |-> [i \in 0 .. ScoreSize - 1 |-> 0],
     clef |-> 0, ks |-> [scale |-> 0, signature |-> 0],
     ts |-> [upper |-> 4, lower |-> 2],
     trk_no |-> 0, delta_time |-> 0, count |-> 0, position |-> 0,
     track |-> NoTrack, cur |-> 0, loop |-> "none", fp |-> 0, by |-> 0,
     spilled |-> 0, written |-> FALSE,
     last |-> NoEvent, notes |-> <<>>, emitted |-> <<>>]

ConvIdle ==
    /\ cfile = <<>>
    /\ conv = ConvZero

ExtIdle ==
    /\ EvtIdle
    /\ IterIdle
    /\ ConvIdle

CodecIdle ==
    /\ key = 0
    /\ length = 0
    /\ dot = 0
    /\ note = NoteZero
    /\ keyOut = 0
    /\ snote = NoteSimpZero
    /\ skeyOut = 0
    /\ cdone = {}

(***************************************************************************)
(* The codec driven over its inputs: a caller picks key, length and dot,   *)
(* encodes, and decodes what the encoder returned.                         *)
(***************************************************************************)
Keys    == 0 .. 255          \* uint8_t
Lengths == 0 .. 7            \* the bits of length the encoders read
Dots    == 0 .. 1

CodecInit ==
    /\ key \in Keys
    /\ length \in Lengths
    /\ dot \in Dots
    /\ note = NoteZero
    /\ keyOut = 0
    /\ snote = NoteSimpZero
    /\ skeyOut = 0
    /\ cdone = {}
    /\ MidiIdle
    /\ VlqIdle
    /\ ExtIdle

KeyToNote ==
    /\ "KeyToNote" \notin cdone
    /\ "caller" \notin cdone
    /\ \E g \in NoteGarbage : note' = NumNotaiton_KeyToNote(key, length, dot, g)
    /\ cdone' = cdone \cup {"KeyToNote"}
    /\ UNCHANGED <<key, length, dot, keyOut, snote, skeyOut>>
    /\ UNCHANGED <<midiVars, histVars, vlqVars, extVars>>

NoteToKeyNote ==
    /\ "KeyToNote" \in cdone \/ "caller" \in cdone
    /\ "NoteToKeyNote" \notin cdone
    /\ keyOut' = NumNotaiton_NoteToKeyNote(note)
    /\ cdone' = cdone \cup {"NoteToKeyNote"}
    /\ UNCHANGED <<key, length, dot, note, snote, skeyOut>>
    /\ UNCHANGED <<midiVars, histVars, vlqVars, extVars>>

KeyToNoteSimp ==
    /\ "KeyToNoteSimp" \notin cdone
    /\ "caller" \notin cdone
    /\ snote' = NumNotaiton_KeyToNoteSimp(key, length)
    /\ cdone' = cdone \cup {"KeyToNoteSimp"}
    /\ UNCHANGED <<key, length, dot, note, keyOut, skeyOut>>
    /\ UNCHANGED <<midiVars, histVars, vlqVars, extVars>>

NoteSimpToKeyNote ==
    /\ "KeyToNoteSimp" \in cdone \/ "caller" \in cdone
    /\ "NoteSimpToKeyNote" \notin cdone
    /\ skeyOut' = NumNotaiton_NoteSimpToKeyNote(snote)
    /\ cdone' = cdone \cup {"NoteSimpToKeyNote"}
    /\ UNCHANGED <<key, length, dot, note, keyOut, snote>>
    /\ UNCHANGED <<midiVars, histVars, vlqVars, extVars>>

CodecNext ==
    \/ KeyToNote
    \/ NoteToKeyNote
    \/ KeyToNoteSimp
    \/ NoteSimpToKeyNote

SpecCodec == CodecInit /\ [][CodecNext]_vars

\* The notes a caller may hand to the decoders: every value of the fields
\* the decoders read, with the other bit-fields at either extreme.
CallerNotes ==
    { [note |-> n, sharp |-> s, length |-> l, octaves |-> o, oct2 |-> o2,
       len2 |-> l % 2, dot |-> l % 2, rfu |-> g.rfu,
       expression |-> g.expression, dynamics |-> g.dynamics]
        : n \in 0 .. 7, s \in 0 .. 1, l \in {0, 3}, o \in 0 .. 3, o2 \in 0 .. 1,
          g \in NoteGarbage }

\* the NoteSimplified_t with the fields of a Note_t it has
SimpOf(n) ==
    [note |-> n.note, sharp |-> n.sharp, length |-> n.length,
     octaves |-> n.octaves]

\* The codec called with keys as in SpecCodec, or its decoders called on
\* notes the caller filled in.
RestInit ==
    \/ CodecInit
    \/ /\ key = 0
       /\ length = 0
       /\ dot = 0
       /\ note \in CallerNotes
       /\ snote = SimpOf(note)
       /\ keyOut = 0
       /\ skeyOut = 0
       /\ cdone = {"caller"}
       /\ MidiIdle
       /\ VlqIdle
       /\ ExtIdle

SpecRest == RestInit /\ [][CodecNext]_vars

(***************************************************************************)
(* midi_parse_delta_time driven over its inputs: the standard              *)
(* variable-length encodings of tick counts around the points where the    *)
(* encoding grows by a byte, and arbitrary short byte strings.             *)
(***************************************************************************)
VlqSpan   == 40     \* tick counts taken on each side of a width boundary
MaxVlqLen == 5      \* bytes in an arbitrary input

\* the largest tick count four bytes encode, 0x0FFFFFFF
MaxTick == Pow2(28) - 1

\* the 7-bit groups above the last one, each with the continuation bit
RECURSIVE VlqHigh(_)
VlqHigh(w) ==
    IF w < 128 THEN <<128 + w>> ELSE VlqHigh(w \div 128) \o <<128 + (w % 128)>>

\* the standard variable-length encoding of v
VlqEncode(v) == IF v < 128 THEN <<v>> ELSE VlqHigh(v \div 128) \o <<v % 128>>

VlqValues ==
    { v \in UNION { (b - VlqSpan) .. (b + VlqSpan)
                      : b \in {0, 128, 16384, 2097152, MaxTick} } :
        v >= 0 /\ v <= MaxTick }

\* what may follow the encoding in the file: nothing, a command byte, 0xFF
VlqTails == { <<>>, <<144>>, <<255, 47>> }

VlqBytes == {0, 1, 127, 128, 255}

VlqStrings == UNION { [1 .. n -> VlqBytes] : n \in 0 .. MaxVlqLen }

VlqInit ==
    /\ CodecIdle
    /\ MidiIdle
    /\ ExtIdle
    /\ \/ \E v \in VlqValues : \E tl \in VlqTails :
             /\ vlqIn = VlqEncode(v) \o tl
             /\ vlqVal = v
       \/ /\ vlqIn \in VlqStrings
          /\ vlqVal = -1
    /\ vlqOut = VlqNone
    /\ vlqDone = FALSE

\* delta_time = midi_parse_delta_time(file, bytes) with the file at the
\* start of vlqIn, and the fread of cmdchan that follows it
ParseDeltaTime ==
    /\ ~ vlqDone
    /\ LET dt == midi_parse_delta_time(vlqIn, 0)
       IN  vlqOut' = [delta_time |-> dt.delta_time, read |-> dt.read,
                      pos |-> dt.pos, cmdchan |-> ReadByte(vlqIn, dt.pos, 0)]
    /\ vlqDone' = TRUE
    /\ UNCHANGED <<vlqIn, vlqVal>>
    /\ UNCHANGED <<codecVars, midiVars, histVars, extVars>>

VlqNext == ParseDeltaTime

SpecVlq == VlqInit /\ [][VlqNext]_vars

(***************************************************************************)
(* midi_parse_event driven over its inputs: one or more encoded events,    *)
(* with every kind of status byte, decoded one call after the other from   *)
(* the start of the process (running_cmd = 0).                             *)
(***************************************************************************)
MaxEvItems == 2     \* encoded events in an input

\* the tick counts before an event: one and two bytes of delta time
EvDeltas == {0, 200}

\* what follows the delta time: a status byte 0x80..0xFE with its data
\* bytes, data bytes alone (running status), and meta events
EvTails ==
    { <<st, 60, 64>> : st \in {128, 144, 165, 176, 239, 240, 247, 254} }
      \cup { <<192, 5>>, <<211, 5>>, <<62, 80>>, <<7>> }
      \cup { <<255, 47, 0>>, <<255, 81, 3, 7, 161, 32>>, <<255, 1, 2, 65, 66>> }

EvItems == [delta : EvDeltas, tail : EvTails]

\* the bytes of an event in the file
EvEncode(it) == VlqEncode(it.delta) \o it.tail

\* the bytes of a sequence of events
EvBytes(src) == Concat([i \in 1 .. Len(src) |-> EvEncode(src[i])])

\* bytes missing at the end of the file
EvCuts == {0, 1}

EvtInit ==
    /\ CodecIdle
    /\ MidiIdle
    /\ VlqIdle
    /\ IterIdle
    /\ ConvIdle
    /\ evSrc \in UNION { [1 .. n -> EvItems] : n \in 1 .. MaxEvItems }
    /\ \E c \in EvCuts : evIn = SubSeq(EvBytes(evSrc), 1, Len(EvBytes(evSrc)) - c)
    /\ evPos = 0
    /\ evOut = EvOutNone

\* one midi_parse_event call at the position of the file; the caller goes
\* on while events are returned and the file has bytes left
ParseOneEvent ==
    /\ ~ evOut.called \/ (evOut.ok /\ evPos < Len(evIn))
    /\ \E u \in Garbage :
         LET r == midi_parse_event(evIn, evPos, running_cmd, u)
         IN  /\ evOut' = [called |-> TRUE, start |-> evPos,
                          rcBefore |-> running_cmd, ok |-> r.ok,
                          event |-> r.event, pos |-> r.pos,
                          nbytes |-> r.nbytes, asked |-> r.asked]
             /\ evPos' = r.pos
             /\ running_cmd' = r.rc
    /\ UNCHANGED <<evSrc, evIn>>
    /\ UNCHANGED <<file, fpos, midi, pc, trk, bytes, ret>>
    /\ UNCHANGED <<codecVars, histVars, vlqVars, iterVars, convVars>>

EvtNext == ParseOneEvent

SpecEvent == EvtInit /\ [][EvtNext]_vars

(***************************************************************************)
(* The MIDI reader driven by its callers.  Each thread opens its own file  *)
(* and fetches tracks from it; midi_get_track is followed event by event,  *)
(* because the events of two threads interleave on running_cmd.            *)
(***************************************************************************)

\* What the environment does to a midi_open call: nothing ("ok"), fopen
\* fails ("ENOENT"), calloc fails ("ENOMEM"), or the file cannot be seeked
\* ("ESPIPE": the path names a FIFO, fread works and fseek fails).
OpenEnvs == {"ok", "ENOENT", "ENOMEM", "ESPIPE"}

\* errno after the failed library call
ErrnoOf(env) == IF env = "ENOENT" THEN 2 ELSE 29

\* midi_open(midi_file, &midi) on a file with bytes f, in environment env:
\* [m (the handle and the caller's pointer to it), pos (of the file)]
midi_open(f, env) ==
    LET h == midi_parse_hdr(f, 0)
        \* hdr.length - (MIDI_HEADER_SIZE - 4 - 4) in uint32_t: a length
        \* below 6 wraps to an offset near 2^32, far past the end of the
        \* file; Pow2(30) stands for it (same residue modulo 256)
        skip == IF h.hdr.length >= 6
                THEN h.hdr.length - 6
                ELSE h.hdr.length - 6 + Pow2(30)
    IN  CASE env = "ENOENT" ->
               \* *midi = NULL; fopen fails; return errno
               [m |-> [MidiZero EXCEPT !.retval = ErrnoOf(env)], pos |-> 0]
          [] env = "ENOMEM" ->
               \* calloc fails: fclose(file); return ENOMEM
               [m |-> [MidiZero EXCEPT !.closes = 1, !.retval = ENOMEM],
                pos |-> 0]
          [] OTHER ->
               IF ~ h.ok
               THEN \* midi_close(*midi): fclose and free; *midi keeps its
                    \* value; return EINVAL
                    [m |-> [MidiZero EXCEPT !.ptr = "freed",
                                            !.closes = 1,
                                            !.retval = EINVAL],
                     pos |-> h.pos]
               ELSE IF env = "ESPIPE"
                    THEN \* fseek returns -1: return errno
                         [m |-> [MidiZero EXCEPT
                                   !.ptr = "valid",
                                   !.isopen = TRUE,
                                   !.hdr = h.hdr,
                                   !.ppq = midi_parse_division(h.hdr.division),
                                   !.retval = ErrnoOf(env)],
                          pos |-> h.pos]
                    ELSE [m |-> [MidiZero EXCEPT
                                   !.ptr = "valid",
                                   !.isopen = TRUE,
                                   !.hdr = h.hdr,
                                   !.ppq = midi_parse_division(h.hdr.division),
                                   !.trk_offset = U8(h.pos + skip)],
                          pos |-> h.pos + skip]

\* midi_open(midi_file, &midi) by thread t
Open(t) ==
    /\ pc[t] = "start"
    /\ \E env \in OpenEnvs :
         LET o == midi_open(file[t], env)
         IN  /\ midi' = [midi EXCEPT ![t] = o.m]
             /\ fpos' = [fpos EXCEPT ![t] = o.pos]
             /\ pc' = [pc EXCEPT ![t] = IF o.m.retval = 0 THEN "ready"
                                                          ELSE "openfail"]
    /\ UNCHANGED <<running_cmd, file, trk, bytes, ret>>
    /\ UNCHANGED <<codecVars, histVars, vlqVars, extVars>>

\* midi_close(midi) by the caller that holds an open handle
Close(t) ==
    /\ pc[t] = "ready"
    /\ midi' = [midi EXCEPT ![t].ptr = "freed",
                            ![t].isopen = FALSE,
                            ![t].closes = @ + 1]
    /\ pc' = [pc EXCEPT ![t] = "closed"]
    /\ UNCHANGED <<running_cmd, file, fpos, trk, bytes, ret>>
    /\ UNCHANGED <<codecVars, histVars, vlqVars, extVars>>

\* midi_get_track(midi, i) up to its first midi_parse_event call
GetTrack(t, i) ==
    /\ pc[t] = "ready"
    /\ Len(hist[t]) < MaxFetches
    /\ LET s == TrackStart(file[t], midi[t].trk_offset, i)
       IN  /\ fpos' = [fpos EXCEPT ![t] = s.pos]
           /\ bytes' = [bytes EXCEPT ![t] = 0]
           /\ ev' = [ev EXCEPT ![t] = EvNone]
           /\ trkCmd' = [trkCmd EXCEPT ![t] = -1]
           /\ CASE s.stage = "skipfail" ->
                     \* midi_prefix_errmsg, return NULL
                     /\ midi' = [midi EXCEPT ![t].errnum = 0,
                                             ![t].errmsg =
                                                <<"Failed to parse track %d header",
                                                  s.errmsg>>]
                     /\ trk' = [trk EXCEPT ![t] = NoTrack]
                     /\ ret' = [ret EXCEPT ![t] = RetNull]
                     /\ hist' = [hist EXCEPT ![t] =
                                    Append(@, [idx |-> i, ret |-> RetNull])]
                     /\ pc' = pc
                [] s.stage = "hdrfail" ->
                     \* midi_parse_track returns false before trk->head is
                     \* assigned; midi_free_track(track) then reads the
                     \* uninitialised head: it may find NULL there, or not
                     /\ midi' = [midi EXCEPT ![t].errnum = 0,
                                             ![t].errmsg = <<s.errmsg>>]
                     /\ trk' = [trk EXCEPT ![t] =
                                   [hdr |-> s.hdr, events |-> 0, num |-> i,
                                    list |-> <<>>]]
                     /\ \/ /\ ret' = [ret EXCEPT ![t] = RetNull]
                           /\ hist' = [hist EXCEPT ![t] =
                                          Append(@, [idx |-> i, ret |-> RetNull])]
                           /\ pc' = pc
                        \/ /\ ret' = [ret EXCEPT ![t] = RetNone]
                           /\ hist' = hist
                           /\ pc' = [pc EXCEPT ![t] = "crashed"]
                [] OTHER ->
                     /\ midi' = midi
                     /\ trk' = [trk EXCEPT ![t] =
                                   [hdr |-> s.hdr, events |-> 0, num |-> i,
                                    list |-> <<>>]]
                     /\ ret' = [ret EXCEPT ![t] = RetNone]
                     /\ hist' = hist
                     /\ pc' = [pc EXCEPT ![t] = "parsing"]
    /\ UNCHANGED <<running_cmd, file, lastCmd, metaSince>>
    /\ UNCHANGED <<codecVars, vlqVars, extVars>>

\* one midi_parse_event call of midi_parse_track, and what the loop around
\* it does with the result
ParseEvent(t) ==
    /\ pc[t] = "parsing"
    /\ \E u \in Garbage :
         LET f      == file[t]
             r      == midi_parse_event(f, fpos[t], running_cmd, u)
             dt     == midi_parse_delta_time(f, fpos[t])
             got    == ReadCnt(f, dt.pos)
             status == ReadByte(f, dt.pos, 0)
             isCmd  == got = 1 /\ status >= 128 /\ status # 255
             isMeta == got = 1 /\ status = 255
             tr2    == AddEvent(trk[t], r.event)
             by2    == bytes[t] + r.nbytes
         IN  /\ running_cmd' = r.rc
             /\ fpos' = [fpos EXCEPT ![t] = r.pos]
             /\ bytes' = [bytes EXCEPT ![t] = by2]
             /\ ev' = [ev EXCEPT ![t] =
                         [valid |-> TRUE, got |-> got, status |-> status,
                          ok |-> r.ok, event |-> r.event,
                          rcBefore |-> running_cmd, prevCmd |-> lastCmd,
                          prevTrkCmd |-> trkCmd[t], metaBefore |-> metaSince[t],
                          posStatus |-> dt.pos + got, posAfter |-> r.pos]]
             /\ lastCmd' = IF isCmd THEN status ELSE lastCmd
             /\ trkCmd' = [trkCmd EXCEPT ![t] = IF isCmd THEN status ELSE @]
             /\ metaSince' = [metaSince EXCEPT ![t] =
                                IF isCmd THEN FALSE ELSE IF isMeta THEN TRUE ELSE @]
             /\ IF r.ok
                THEN /\ midi' = midi
                     /\ trk' = [trk EXCEPT ![t] = tr2]
                     /\ IF MoreEvents(by2, tr2)
                        THEN /\ ret' = ret
                             /\ hist' = hist
                             /\ pc' = pc
                        ELSE \* node->next = NULL; return true
                             /\ ret' = [ret EXCEPT ![t] = RetTrack(tr2)]
                             /\ hist' = [hist EXCEPT ![t] =
                                            Append(@, [idx |-> tr2.num,
                                                       ret |-> RetTrack(tr2)])]
                             /\ pc' = [pc EXCEPT ![t] = "ready"]
                ELSE /\ midi' = [midi EXCEPT ![t].errnum = r.errnum,
                                             ![t].errmsg = <<r.errmsg>>]
                     /\ trk' = trk
                     /\ IF trk[t].list # <<>>
                        THEN \* midi_free_track walks the list from its head
                             /\ ret' = [ret EXCEPT ![t] = RetNull]
                             /\ hist' = [hist EXCEPT ![t] =
                                            Append(@, [idx |-> trk[t].num,
                                                       ret |-> RetNull])]
                             /\ pc' = [pc EXCEPT ![t] = "ready"]
                        ELSE \* the first event failed: trk->head was never
                             \* assigned and midi_free_track reads it
                             \/ /\ ret' = [ret EXCEPT ![t] = RetNull]
                                /\ hist' = [hist EXCEPT ![t] =
                                               Append(@, [idx |-> trk[t].num,
                                                          ret |-> RetNull])]
                                /\ pc' = [pc EXCEPT ![t] = "ready"]
                             \/ /\ ret' = [ret EXCEPT ![t] = RetNone]
                                /\ hist' = hist
                                /\ pc' = [pc EXCEPT ![t] = "crashed"]
    /\ UNCHANGED file
    /\ UNCHANGED <<codecVars, vlqVars, extVars>>

MidiNext ==
    \E t \in Threads :
        \/ Open(t)
        \/ \E i \in 0 .. (MaxTracks - 1) : GetTrack(t, i)
        \/ ParseEvent(t)
        \/ Close(t)

\* one thread reads one file
Init ==
    /\ CodecIdle
    /\ VlqIdle
    /\ ExtIdle
    /\ running_cmd = 0
    /\ \E f \in Files(MaxEvents) \cup TruncFiles \cup HdrFiles \cup BadHdrFiles
                  \cup BadTrackFiles :
         file = [t \in Threads |-> IF t = 1 THEN f ELSE <<>>]
    /\ fpos = [t \in Threads |-> 0]
    /\ midi = [t \in Threads |-> MidiZero]
    /\ pc = [t \in Threads |-> IF t = 1 THEN "start" ELSE "off"]
    /\ trk = [t \in Threads |-> NoTrack]
    /\ bytes = [t \in Threads |-> 0]
    /\ ret = [t \in Threads |-> RetNone]
    /\ ev = [t \in Threads |-> EvNone]
    /\ lastCmd = -1
    /\ trkCmd = [t \in Threads |-> -1]
    /\ metaSince = [t \in Threads |-> FALSE]
    /\ hist = [t \in Threads |-> <<>>]

Next == MidiNext

Spec == Init /\ [][Next]_vars

(***************************************************************************)
(* The event loop of midi_parse_track on any content.  RawFiles are files  *)
(* with one track chunk whose body is any string over RawBytes (not cut    *)
(* into events) and whose declared size is the body's length or more, so   *)
(* that the loop goes on reading at the end of the file.                   *)
(* A thread inside midi_get_track keeps running: ParseEvent is weakly      *)
(* fair.                                                                   *)
(***************************************************************************)
MaxRawLen == 3       \* bytes in the body of a raw track chunk

\* 0x00, a data byte, the status byte of Note-On, the meta status
RawBytes == {0, 62, 144, 255}

\* how many bytes more than it holds a raw chunk declares
RawOver == {0, 3}

RawFiles ==
    UNION { { HeaderChunk(1) \o TrackChunk(body, Len(body) + over)
                : body \in [1 .. k -> RawBytes], over \in RawOver }
            : k \in 0 .. MaxRawLen }

InitTerm ==
    /\ CodecIdle
    /\ VlqIdle
    /\ ExtIdle
    /\ running_cmd = 0
    /\ \E f \in RawFiles :
         file = [t \in Threads |-> IF t = 1 THEN f ELSE <<>>]
    /\ fpos = [t \in Threads |-> 0]
    /\ midi = [t \in Threads |-> MidiZero]
    /\ pc = [t \in Threads |-> IF t = 1 THEN "start" ELSE "off"]
    /\ trk = [t \in Threads |-> NoTrack]
    /\ bytes = [t \in Threads |-> 0]
    /\ ret = [t \in Threads |-> RetNone]
    /\ ev = [t \in Threads |-> EvNone]
    /\ lastCmd = -1
    /\ trkCmd = [t \in Threads |-> -1]
    /\ metaSince = [t \in Threads |-> FALSE]
    /\ hist = [t \in Threads |-> <<>>]

SpecTerm ==
    InitTerm /\ [][Next]_vars /\ WF_vars(\E t \in Threads : ParseEvent(t))

(***************************************************************************)
(* Iteration over a track midi_get_track returned.  The list of the track  *)
(* is the sequence itrk.list; a node is its index and NULL is 0.           *)
(***************************************************************************)
MaxIterEvents == 3   \* encoded events in the file the track is fetched from
MaxIterCalls  == 7   \* midi_iter_track and midi_track_next calls on the track

\* trk->head
TrackHead(tr) == IF Len(tr.list) > 0 THEN 1 ELSE 0

\* Mutant: the links of the list skip every second node.
NodeNext_Skip(tr, c) == IF c + 1 < Len(tr.list) THEN c + 2 ELSE 0

\* node->next of node c, as midi_parse_track linked the list
NodeNext(tr, c) == IF c < Len(tr.list) THEN c + 1 ELSE 0

\* Mutant: midi_iter_track leaves the cursor where it is.
midi_iter_track_Keep(tr, c) == c

\* trk->cur after midi_iter_track(trk)
midi_iter_track(tr, c) == TrackHead(tr)

midi_track_has_next(c) == c # 0

\* midi_track_next(trk) with trk->cur = c, not NULL: [event, cur]
midi_track_next(tr, c) == [event |-> tr.list[c], cur |-> NodeNext(tr, c)]

\* Mutant: midi_track_next unlinks the node it returns.
TrackAfterNext_Unlink(tr, c) ==
    [tr EXCEPT !.list = SubSeq(tr.list, 1, c - 1)
                        \o SubSeq(tr.list, c + 1, Len(tr.list)),
               !.events = tr.events - 1]

\* the midi_track_t and its list after midi_track_next(trk) with
\* trk->cur = c: the only store of the function is the one to trk->cur
TrackAfterNext(tr, c) == tr

\* the tracks midi_get_track returns on the files of the model when called
\* as the first fetch of a process
IterTracks ==
    { r.track :
        r \in { x \in { midi_get_track(f, midi_open(f, "ok").m.trk_offset,
                                       i, 0, u).ret
                          : f \in FilesWith(MaxIterEvents, {0}),
                            i \in 0 .. MaxTracks - 1, u \in Garbage } :
                   x.kind = "track" } }

\* midi_get_track has just returned the track: trk->cur = trk->head
IterInit ==
    /\ CodecIdle
    /\ MidiIdle
    /\ VlqIdle
    /\ EvtIdle
    /\ ConvIdle
    /\ itrk \in IterTracks
    /\ itrk0 = itrk
    /\ cur = TrackHead(itrk)
    /\ walk = <<>>
    /\ walks = <<>>
    /\ restartAt = -1
    /\ hasNext = HasNextNone
    /\ istate = "live"
    /\ icalls = 0

\* midi_iter_track(trk)
IterTrack ==
    /\ istate = "live"
    /\ icalls < MaxIterCalls
    /\ cur' = midi_iter_track(itrk, cur)
    /\ walk' = <<>>
    /\ restartAt' = Len(walk)
    /\ hasNext' = HasNextNone
    /\ icalls' = icalls + 1
    /\ UNCHANGED <<itrk, itrk0, walks, istate>>
    /\ UNCHANGED <<codecVars, midiVars, histVars, vlqVars, evtVars, convVars>>

\* midi_track_has_next(trk)
TrackHasNext ==
    /\ istate = "live"
    /\ ~ hasNext.called
    /\ hasNext' = [called |-> TRUE, value |-> midi_track_has_next(cur)]
    /\ UNCHANGED <<itrk, itrk0, cur, walk, walks, restartAt, istate, icalls>>
    /\ UNCHANGED <<codecVars, midiVars, histVars, vlqVars, evtVars, convVars>>

\* midi_track_next(trk).  With trk->cur == NULL the function reads
\* trk->cur->next through the null pointer: the process is killed.
TrackNext ==
    /\ istate = "live"
    /\ icalls < MaxIterCalls
    /\ icalls' = icalls + 1
    /\ hasNext' = HasNextNone
    /\ IF cur = 0
       THEN /\ istate' = "crashed"
            /\ UNCHANGED <<itrk, cur, walk, walks>>
       ELSE LET r == midi_track_next(itrk, cur)
            IN  /\ cur' = r.cur
                /\ itrk' = TrackAfterNext(itrk, cur)
                /\ walk' = Append(walk, r.event)
                /\ walks' = IF r.cur = 0 THEN Append(walks, walk') ELSE walks
                /\ istate' = istate
    /\ UNCHANGED <<itrk0, restartAt>>
    /\ UNCHANGED <<codecVars, midiVars, histVars, vlqVars, evtVars, convVars>>

IterNext ==
    \/ IterTrack
    \/ TrackHasNext
    \/ TrackNext

SpecIter == IterInit /\ [][IterNext]_vars

(***************************************************************************)
(* midi_to_score (midi2score.c), followed loop iteration by loop iteration *)
(* and, inside midi_get_track, event by event                              *)
(***************************************************************************)
MIDI_EVENT_NOTE_OFF == 8
MIDI_EVENT_NOTE_ON == 9
MIDI_META_TEMPO_CHANGE == 81
MIDI_META_TIME_SIGNATURE == 88
MIDI_META_KEY_SIGNATURE == 89
NOTE_LENGTH_HALF == 0
NOTE_LENGTH_QUARTER == 1
NOTE_LENGTH_EIGHTH == 2
NOTE_LENGTH_16TH == 3
NOTE_LENGTH_WHOLE == 4
SCORE_OFFSET_SIZE == 8
SCORE_OFFSET_DATA == 12

\* midi_delta_time_to_length.  fraction is the float nearest to
\* delta_time / base and the thresholds are the doubles nearest to 3.6, 1.8,
\* 0.9 and 0.45, each of which lies above the float nearest to the same
\* number: a quotient that equals a threshold exactly compares below it.
\* Exact for tick counts below 2^24.
midi_delta_time_to_length(delta_time, base) ==
    IF delta_time = 0 \/ base = 0
    THEN NOTE_LENGTH_QUARTER
    ELSE IF 10 * delta_time > 36 * base THEN NOTE_LENGTH_WHOLE
    ELSE IF 10 * delta_time > 18 * base THEN NOTE_LENGTH_HALF
    ELSE IF 10 * delta_time > 9 * base THEN NOTE_LENGTH_QUARTER
    ELSE IF 100 * delta_time > 45 * base THEN NOTE_LENGTH_EIGHTH
    ELSE NOTE_LENGTH_16TH

\* *(uint8_t *)&note of a NoteSimplified_t: note in bits 0-2, sharp in bit
\* 3, length in bits 4-5, octaves in bits 6-7
PackSimp(n) == n.note + 8 * n.sharp + 16 * n.length + 64 * n.octaves

\* *(uint8_t *)&ks and *(uint8_t *)&ts
PackKs(k) == k.scale + 8 * k.signature
PackTs(t) == t.upper + 16 * t.lower

\* event->data[i] (i from 0); u is what lies behind the node's data bytes
DataAt(e, i, u) == IF i < Len(e.data) THEN e.data[i + 1] ELSE u

\* Mutant: the three tempo bytes are taken least significant first.
TempoOf_LittleEndian(e, u) ==
    DataAt(e, 2, u) * 65536 + DataAt(e, 1, u) * 256 + DataAt(e, 0, u)

\* event->data[0] << 16 | event->data[1] << 8 | event->data[2]
TempoOf(e, u) ==
    DataAt(e, 0, u) * 65536 + DataAt(e, 1, u) * 256 + DataAt(e, 2, u)

\* the body of the loop over track 0: the switch on a meta event
TempoStep(c, e, u) ==
    IF e.type # MIDI_EVENT_TYPE_META
    THEN c
    ELSE IF e.cmd = MIDI_META_TEMPO_CHANGE
         THEN [c EXCEPT !.tempo = TempoOf(e, u)]
         ELSE IF e.cmd = MIDI_META_TIME_SIGNATURE
              THEN [c EXCEPT !.ts = [upper |-> DataAt(e, 0, u) % 16,
                                     lower |-> DataAt(e, 1, u) % 4]]
              ELSE IF e.cmd = MIDI_META_KEY_SIGNATURE
                   THEN [c EXCEPT !.ks = [signature |-> DataAt(e, 0, u) % 8,
                                          scale     |-> DataAt(e, 1, u) % 8]]
                   ELSE c

\* score[0..7] and position = SCORE_OFFSET_DATA
ScoreHeader(c) ==
    [c EXCEPT !.score = [i \in 0 .. ScoreSize - 1 |->
                            CASE i = 0 -> 77          \* 'M'
                              [] i = 1 -> 83          \* 'S'
                              [] i = 2 -> 83          \* 'S'
                              [] i = 3 -> 67          \* 'C'
                              [] i = 4 -> c.clef
                              [] i = 5 -> PackKs(c.ks)
                              [] i = 6 -> PackTs(c.ts)
                              [] i = 7 -> 0
                              [] OTHER -> c.score[i]],
              !.position = SCORE_OFFSET_DATA]

\* track = midi_get_track(midi, trk_no) up to its first midi_parse_event
\* call; loop is the loop that will walk the track.  When the call returns
\* NULL, the midi_iter_track(track) that follows stores through the null
\* pointer: the process is killed.
BeginFetch(c, loop) ==
    LET s == TrackStart(cfile, c.midi.trk_offset, c.trk_no)
    IN  IF s.stage = "events"
        THEN [c EXCEPT !.pc = "fetch", !.loop = loop, !.fp = s.pos, !.by = 0,
                       !.track = [hdr |-> s.hdr, events |-> 0,
                                  num |-> c.trk_no, list |-> <<>>]]
        ELSE [c EXCEPT !.pc = "crashed"]

\* score[8] = (count >> 8) & 0xFF; score[9] = count & 0xFF
SizeField(count) == <<(count \div 256) % 256, count % 256>>

\* the end of midi_to_score: the size field, the .ssc file and midi_close
Finish(c) ==
    LET z == SizeField(c.count)
    IN  [c EXCEPT !.pc = "done",
                  !.score[SCORE_OFFSET_SIZE] = z[1],
                  !.score[SCORE_OFFSET_SIZE + 1] = z[2],
                  !.score[SCORE_OFFSET_SIZE + 2] = 0,
                  !.score[SCORE_OFFSET_SIZE + 3] = 0,
                  !.written = TRUE,
                  !.midi.ptr = "freed",
                  !.midi.isopen = FALSE,
                  !.midi.closes = 1]

\* the head of the for loop over the tracks after the note track
NextTrackOrFinish(c) ==
    IF c.trk_no < c.midi.hdr.tracks THEN BeginFetch(c, "rest") ELSE Finish(c)

MaxConvEvents  == 3     \* encoded events in the note track
MaxTempoEvents == 2     \* encoded events in track 0 of a two-track file
MaxNoteOffs    == 501   \* Note-Off events of the long note track

\* the division of HeaderChunk is 480 ticks per quarter note
ConvNoteItems ==
    << <<0, 144, 60, 64>>,              \* delta 0, Note-On key 60
       <<131, 96, 128, 60, 0>>,         \* delta 480, Note-Off key 60
       <<129, 112, 62, 0>>,             \* delta 240, running status: 62, 0
       <<0, 255, 81, 3, 1, 2, 3>>,      \* meta 0x51 inside the note track
       <<0, 192, 5>> >>                 \* Program-Change

ConvTempoItems ==
    << <<0, 255, 81, 3, 7, 161, 32>>,   \* tempo 0x07A120
       <<0, 255, 81, 3, 1, 2, 3>>,      \* tempo 0x010203
       <<0, 255, 88, 4, 3, 3, 24, 8>>,  \* time signature 3/8
       <<0, 255, 89, 2, 2, 1>>,         \* key signature
       <<0, 255, 47, 0>> >>             \* end of track

\* the bodies made of 1..n of the items
BodiesOf(items, n) ==
    { Concat([i \in 1 .. Len(sq) |-> items[sq[i]]]) :
        sq \in UNION { [1 .. k -> 1 .. Len(items)] : k \in 1 .. n } }

\* a Note-Off and n - 1 more by running status, all with delta 0
LongBody(n) ==
    <<0, 128, 60, 0>> \o [i \in 1 .. 3 * (n - 1) |-> IF i % 3 = 2 THEN 60 ELSE 0]

ConvFiles ==
    { HeaderChunk(1) \o TrackChunk(b, Len(b))
        : b \in BodiesOf(ConvNoteItems, MaxConvEvents) }
      \cup { HeaderChunk(2) \o TrackChunk(tb, Len(tb)) \o TrackChunk(b, Len(b))
              : tb \in BodiesOf(ConvTempoItems, MaxTempoEvents),
                b \in BodiesOf(ConvNoteItems, MaxConvEvents - 1) }
      \cup { HeaderChunk(1) \o TrackChunk(LongBody(MaxNoteOffs),
                                          Len(LongBody(MaxNoteOffs))),
             HeaderChunk(0),
             HeaderChunk(2) \o TrackChunk(ConvTempoItems[1], 7),
             HeaderChunk(3) \o TrackChunk(ConvTempoItems[2], 7)
                            \o TrackChunk(ConvNoteItems[2], 5)
                            \o TrackChunk(ConvNoteItems[1], 4),
             HeaderChunk(3) \o TrackChunk(ConvTempoItems[1], 7)
                            \o TrackChunk(ConvNoteItems[2], 5) }

ConvInit ==
    /\ CodecIdle
    /\ MidiIdle
    /\ VlqIdle
    /\ EvtIdle
    /\ IterIdle
    /\ cfile \in ConvFiles
    /\ conv = [ConvZero EXCEPT !.pc = "start"]

\* midi_to_score up to the first midi_get_track call
ConvOpen ==
    /\ conv.pc = "start"
    /\ \E env \in OpenEnvs :
         LET o  == midi_open(cfile, env)
             c1 == [conv EXCEPT !.midi = o.m, !.ppq = o.m.ppq]
         IN  IF o.m.retval # 0
             THEN \* return 1
                  conv' = [conv EXCEPT !.pc = "failed", !.midi = o.m]
             ELSE IF o.m.hdr.tracks = 0
                  THEN \* goto cleanup: midi_close(midi)
                       conv' = [c1 EXCEPT !.pc = "done",
                                          !.midi.ptr = "freed",
                                          !.midi.isopen = FALSE,
                                          !.midi.closes = 1]
                  ELSE IF o.m.hdr.tracks >= 2
                       THEN conv' = BeginFetch(c1, "tempo")
                       ELSE conv' = BeginFetch(ScoreHeader(c1), "notes")
    /\ UNCHANGED <<cfile, running_cmd>>
    /\ UNCHANGED <<file, fpos, midi, pc, trk, bytes, ret>>
    /\ UNCHANGED <<codecVars, histVars, vlqVars, evtVars, iterVars>>

\* one midi_parse_event call of the midi_get_track call in progress; after
\* the last one the call returns, trk_no += 1 and midi_iter_track(track)
ConvParseEvent ==
    /\ conv.pc = "fetch"
    /\ \E u \in Garbage :
         LET r  == midi_parse_event(cfile, conv.fp, running_cmd, u)
             tr == AddEvent(conv.track, r.event)
             by == conv.by + r.nbytes
         IN  /\ running_cmd' = r.rc
             /\ IF ~ r.ok
                THEN conv' = [conv EXCEPT !.pc = "crashed"]
                ELSE IF MoreEvents(by, tr)
                     THEN conv' = [conv EXCEPT !.track = tr, !.by = by,
                                               !.fp = r.pos]
                     ELSE conv' = [conv EXCEPT
                                     !.pc = conv.loop,
                                     !.track = tr,
                                     !.by = by,
                                     !.fp = r.pos,
                                     !.cur = midi_iter_track(tr, 0),
                                     !.trk_no = U8(conv.trk_no + 1)]
    /\ UNCHANGED cfile
    /\ UNCHANGED <<file, fpos, midi, pc, trk, bytes, ret>>
    /\ UNCHANGED <<codecVars, histVars, vlqVars, evtVars, iterVars>>

\* one iteration of the loop over track 0
TempoEvent ==
    /\ conv.pc = "tempo"
    /\ midi_track_has_next(conv.cur)
    /\ \E u \in Garbage :
         LET n == midi_track_next(conv.track, conv.cur)
         IN  conv' = [TempoStep(conv, n.event, u) EXCEPT !.cur = n.cur,
                                                         !.last = n.event]
    /\ UNCHANGED <<cfile, running_cmd>>
    /\ UNCHANGED <<file, fpos, midi, pc, trk, bytes, ret>>
    /\ UNCHANGED <<codecVars, histVars, vlqVars, evtVars, iterVars>>

\* the loop over track 0 ends: midi_free_track, the score header and the
\* start of the fetch of the note track
TempoDone ==
    /\ conv.pc = "tempo"
    /\ ~ midi_track_has_next(conv.cur)
    /\ conv' = BeginFetch(ScoreHeader(conv), "notes")
    /\ UNCHANGED <<cfile, running_cmd>>
    /\ UNCHANGED <<file, fpos, midi, pc, trk, bytes, ret>>
    /\ UNCHANGED <<codecVars, histVars, vlqVars, evtVars, iterVars>>

\* one iteration of the loop over the note track.  A store to
\* score[position] with position >= 512 lands outside the array: the byte
\* goes to whatever follows score, or the process is killed.
NoteEvent ==
    /\ conv.pc = "notes"
    /\ midi_track_has_next(conv.cur)
    /\ LET n == midi_track_next(conv.track, conv.cur)
           e == n.event
           c == [conv EXCEPT !.cur = n.cur]
       IN  IF e.type # MIDI_EVENT_TYPE_EVENT
           THEN conv' = c
           ELSE IF e.cmd = MIDI_EVENT_NOTE_ON
                THEN conv' = [c EXCEPT !.delta_time = e.delta_time]
                ELSE IF e.cmd # MIDI_EVENT_NOTE_OFF
                     THEN conv' = c
                     ELSE LET dt == conv.delta_time + e.delta_time
                              b  == PackSimp(NumNotaiton_KeyToNoteSimp(e.data[1],
                                       midi_delta_time_to_length(dt, conv.ppq)))
                              d  == [c EXCEPT
                                       !.delta_time = dt,
                                       !.count = conv.count + 1,
                                       !.position = conv.position + 1,
                                       !.emitted = Append(conv.emitted,
                                          <<conv.position, b, conv.cur>>)]
                          IN  IF conv.position < ScoreSize
                              THEN conv' = [d EXCEPT
                                              !.score[conv.position] = b]
                              ELSE \/ conv' = [d EXCEPT
                                                 !.spilled = conv.spilled + 1]
                                   \/ conv' = [c EXCEPT !.pc = "crashed"]
    /\ UNCHANGED <<cfile, running_cmd>>
    /\ UNCHANGED <<file, fpos, midi, pc, trk, bytes, ret>>
    /\ UNCHANGED <<codecVars, histVars, vlqVars, evtVars, iterVars>>

\* the loop over the note track ends: midi_free_track, then the next
\* track or the end of the function
NotesDone ==
    /\ conv.pc = "notes"
    /\ ~ midi_track_has_next(conv.cur)
    /\ conv' = NextTrackOrFinish([conv EXCEPT !.notes = conv.track.list])
    /\ UNCHANGED <<cfile, running_cmd>>
    /\ UNCHANGED <<file, fpos, midi, pc, trk, bytes, ret>>
    /\ UNCHANGED <<codecVars, histVars, vlqVars, evtVars, iterVars>>

\* one iteration of the loop over a track after the note track
RestEvent ==
    /\ conv.pc = "rest"
    /\ midi_track_has_next(conv.cur)
    /\ conv' = [conv EXCEPT !.cur = midi_track_next(conv.track, conv.cur).cur]
    /\ UNCHANGED <<cfile, running_cmd>>
    /\ UNCHANGED <<file, fpos, midi, pc, trk, bytes, ret>>
    /\ UNCHANGED <<codecVars, histVars, vlqVars, evtVars, iterVars>>

\* that loop ends: midi_free_track, then the next track or the end
RestDone ==
    /\ conv.pc = "rest"
    /\ ~ midi_track_has_next(conv.cur)
    /\ conv' = NextTrackOrFinish(conv)
    /\ UNCHANGED <<cfile, running_cmd>>
    /\ UNCHANGED <<file, fpos, midi, pc, trk, bytes, ret>>
    /\ UNCHANGED <<codecVars, histVars, vlqVars, evtVars, iterVars>>

ConvNext ==
    \/ ConvOpen
    \/ ConvParseEvent
    \/ TempoEvent
    \/ TempoDone
    \/ NoteEvent
    \/ NotesDone
    \/ RestEvent
    \/ RestDone

SpecConv == ConvInit /\ [][ConvNext]_vars

(***************************************************************************)
(* Claims about the codec                                                  *)
(***************************************************************************)

\* C1: full codec round trip: for every key in [24,108), every length and
\* dot, NumNotaiton_NoteToKeyNote(NumNotaiton_KeyToNote(key, length, dot))
\* is the key again.
C1_FullRoundTrip ==
    ("NoteToKeyNote" \in cdone /\ key >= 24 /\ key < 108) => keyOut = key

\* C2: simplified codec round trip: for every key in [48,96) and every
\* length, NumNotaiton_NoteSimpToKeyNote(NumNotaiton_KeyToNoteSimp(key,
\* length)) is the key again.
C2_SimpRoundTrip ==
    ("NoteSimpToKeyNote" \in cdone /\ key >= 48 /\ key < 96) => skeyOut = key

\* C2 witness: a key of the lowest simplified octave (stored with a
\* negative octave offset) has been encoded and decoded.
C2_Witness ==
    /\ "NoteSimpToKeyNote" \in cdone
    /\ key = 50
    /\ length = 4
    /\ snote.octaves = 1
    /\ skeyOut = 50

(***************************************************************************)
(* Two threads, each reading its own file through its own handle           *)
(***************************************************************************)
MaxConcEvents == 1   \* encoded events in each of the two files

InitConc ==
    /\ CodecIdle
    /\ VlqIdle
    /\ ExtIdle
    /\ running_cmd = 0
    /\ file \in [Threads -> FilesWith(MaxConcEvents, {0})]
    /\ fpos = [t \in Threads |-> 0]
    /\ midi = [t \in Threads |-> MidiZero]
    /\ pc = [t \in Threads |-> "start"]
    /\ trk = [t \in Threads |-> NoTrack]
    /\ bytes = [t \in Threads |-> 0]
    /\ ret = [t \in Threads |-> RetNone]
    /\ ev = [t \in Threads |-> EvNone]
    /\ lastCmd = -1
    /\ trkCmd = [t \in Threads |-> -1]
    /\ metaSince = [t \in Threads |-> FALSE]
    /\ hist = [t \in Threads |-> <<>>]

SpecConc == InitConc /\ [][Next]_vars

(***************************************************************************)
(* Claims about the event decoder                                          *)
(***************************************************************************)

\* the last midi_parse_event call of thread t read a data byte (top bit
\* clear) where the status byte stands
IsRunning(t) == ev[t].valid /\ ev[t].got = 1 /\ ev[t].status < 128

\* C3: an event decoded from a continuation byte carries the channel of the
\* most recent command byte of the same track.
C3_RunningChannel ==
    \A t \in Threads :
        (IsRunning(t) /\ ev[t].ok /\ ev[t].prevTrkCmd # -1)
            => ev[t].event.chan = ev[t].prevTrkCmd % 16

\* C4: an event decoded from a continuation byte is a channel event with the
\* command nibble of the most recent command byte; its first data byte is
\* the continuation byte, and only the remaining argument bytes are read
\* (one for a 2-argument command, none for Program-Change and
\* Channel-Pressure).
C4_RunningCommand ==
    \A t \in Threads :
        (IsRunning(t) /\ ev[t].ok) =>
            LET e     == ev[t].event
                one   == e.cmd = 12 \/ e.cmd = 13
                left  == Len(file[t]) - ev[t].posStatus
                wants == IF one THEN 0 ELSE 1
            IN  /\ e.type = MIDI_EVENT_TYPE_EVENT
                /\ ev[t].prevCmd # -1
                /\ e.cmd = ev[t].prevCmd \div 16
                /\ e.data[1] = ev[t].status
                /\ e.size = wants + 1
                /\ Len(e.data) = wants + 1
                /\ ev[t].posAfter - ev[t].posStatus
                      = (IF left < wants THEN (IF left < 0 THEN 0 ELSE left) ELSE wants)

\* C4 witness: a Program-Change continued by running status, decoded from
\* the continuation byte alone.
C4_Witness ==
    /\ IsRunning(1)
    /\ ev[1].ok
    /\ ev[1].event.cmd = 12
    /\ ev[1].event.data = <<ev[1].status>>
    /\ ev[1].posAfter = ev[1].posStatus

\* C5: running status is reset at the start of every track: a data byte in
\* status position, with no command byte before it in the same track, makes
\* the decode fail with the no-running-status error.
C5_ResetPerTrack ==
    \A t \in Threads :
        (IsRunning(t) /\ ev[t].prevTrkCmd = -1)
            => (~ ev[t].ok /\ midi[t].errnum = EINVAL)

\* C6: a data byte in status position with no command byte decoded before
\* it: midi_parse_event sets an error and returns no event, and
\* midi_get_track returns NULL.
C6_NoRunningStatus ==
    \A t \in Threads :
        (IsRunning(t) /\ ev[t].prevCmd = -1)
            => /\ ~ ev[t].ok
               /\ midi[t].errnum = EINVAL
               /\ pc[t] = "ready"
               /\ ret[t] = RetNull

\* C7: decoding a meta event leaves the running status unchanged, and a
\* continuation byte that follows meta events is decoded with the command
\* of the last command byte before them.
C7_MetaKeepsRunning ==
    \A t \in Threads :
        /\ (ev[t].valid /\ ev[t].got = 1 /\ ev[t].status = 255)
              => running_cmd = ev[t].rcBefore
        /\ (IsRunning(t) /\ ev[t].ok /\ ev[t].metaBefore)
              => ev[t].event.cmd = ev[t].prevCmd \div 16

\* C7 witness: Note-On, then a meta event, then a continuation byte in the
\* same track, decoded as a Note-On.
C7_Witness ==
    /\ IsRunning(1)
    /\ ev[1].ok
    /\ ev[1].metaBefore
    /\ ev[1].prevTrkCmd = 144
    /\ ev[1].event.cmd = 9
    /\ Len(trk[1].list) >= 3

\* C8: what midi_get_track(midi, i) returns does not depend on the tracks
\* fetched before it on the handle: it is what fetching i first returns.
C8_FetchOrderIndependent ==
    \A t \in Threads :
        \A k \in DOMAIN hist[t] :
            \E u \in Garbage :
                hist[t][k].ret
                  = midi_get_track(file[t], midi[t].trk_offset, hist[t][k].idx, 0, u).ret

\* C9: two threads that each decode their own file get, in every
\* interleaving, what decoding that file alone gives.
C9_IndependentFiles ==
    \A t \in Threads :
        \E u \in Garbage :
            [k \in DOMAIN hist[t] |-> hist[t][k].ret]
              = GetTracksAlone(file[t], midi[t].trk_offset,
                               [k \in DOMAIN hist[t] |-> hist[t][k].idx], 0, u)

\* C10: a fetch whose events consume more bytes than the chunk declares
\* fails: on every successful fetch the consumed-byte count equals the
\* declared length.
C10_FramingOvershoot ==
    \A t \in Threads :
        ret[t].kind = "track" => bytes[t] = ret[t].track.hdr.size

\* where the events of the track last returned to thread t begin in its file
BodyStart(t) == TrackStart(file[t], midi[t].trk_offset, ret[t].track.num).pos

\* C11: a track is returned only when the file holds every byte of the
\* track's declared length; a file that ends earlier makes midi_get_track
\* return NULL.
C11_TruncatedTrack ==
    \A t \in Threads :
        ret[t].kind = "track"
            => BodyStart(t) + ret[t].track.hdr.size <= Len(file[t])

\* the last midi_parse_event call of thread t read a channel command byte
\* and the file ended before the last of its argument bytes
IsCutCommand(t) ==
    /\ ev[t].valid
    /\ ev[t].got = 1
    /\ ev[t].status >= 128
    /\ ev[t].status # 255
    /\ Len(file[t]) - ev[t].posStatus < EventArgn(ev[t].status \div 16)

\* C12: when the file ends after a channel command byte and before all of
\* its argument bytes, running_cmd holds that command and the decode fails
\* without emitting an event.
C12_CutAfterCommand ==
    \A t \in Threads :
        IsCutCommand(t)
            => /\ running_cmd = ev[t].status \div 16
               /\ ~ ev[t].ok

\* C13: a returned track has no events exactly when its declared length is
\* 0, and a track of declared length 0 consumes no byte after its header.
C13_ZeroEventTracks ==
    \A t \in Threads :
        ret[t].kind = "track"
            => /\ (ret[t].track.list = <<>>) <=> (ret[t].track.hdr.size = 0)
               /\ ret[t].track.hdr.size = 0 => bytes[t] = 0

(***************************************************************************)
(* Claims about delta times                                                *)
(***************************************************************************)

\* C14: midi_parse_delta_time on the standard variable-length encoding of
\* a tick count v in 0 .. 0x0FFFFFFF returns v and adds the length of the
\* encoding, 1 to 4, to the consumed-byte count.
C14_VlqRoundTrip ==
    (vlqDone /\ vlqVal # -1) =>
        /\ vlqOut.delta_time = vlqVal
        /\ vlqOut.read = (IF vlqVal < 128 THEN 1
                          ELSE IF vlqVal < 16384 THEN 2
                          ELSE IF vlqVal < 2097152 THEN 3 ELSE 4)
        /\ vlqOut.pos = vlqOut.read

\* C14 witness: the largest tick count, 0x0FFFFFFF, decoded from FF FF FF 7F.
C14_Witness ==
    /\ vlqDone
    /\ vlqVal = MaxTick
    /\ SubSeq(vlqIn, 1, 4) = <<255, 255, 255, 127>>
    /\ vlqOut.delta_time = MaxTick
    /\ vlqOut.read = 4

\* C15: midi_parse_delta_time counts at least 1 and at most 4 bytes, goes on
\* exactly while the byte just read has its high bit set, stops after the
\* 4th byte whatever its high bit (the 5th byte is then read as the status
\* byte), and returns a value below 2^28.
C15_VlqWidthCap ==
    vlqDone =>
        /\ vlqOut.read \in 1 .. 4
        /\ \A i \in 1 .. (vlqOut.read - 1) : i <= Len(vlqIn) /\ vlqIn[i] >= 128
        /\ vlqOut.read < 4 => (vlqOut.read > Len(vlqIn) \/ vlqIn[vlqOut.read] < 128)
        /\ vlqOut.pos = Min(vlqOut.read, Len(vlqIn))
        /\ vlqOut.pos < Len(vlqIn) => vlqOut.cmdchan = vlqIn[vlqOut.pos + 1]
        /\ vlqOut.delta_time >= 0
        /\ vlqOut.delta_time < Pow2(28)

\* C15 witness: five bytes with the high bit set; four are taken as the
\* delta time and the fifth is read as the status byte.
C15_Witness ==
    /\ vlqDone
    /\ Len(vlqIn) = 5
    /\ \A i \in 1 .. 5 : vlqIn[i] >= 128
    /\ vlqOut.read = 4
    /\ vlqOut.pos = 4
    /\ vlqOut.cmdchan = vlqIn[5]

(***************************************************************************)
(* Claims about midi_open and midi_close                                   *)
(***************************************************************************)

\* midi_open of thread t returned 0 and the handle has not been closed
IsOpened(t) == pc[t] \in {"ready", "parsing", "crashed"} /\ midi[t].retval = 0

\* C16: after a successful midi_open, hdr.length is the big-endian 32-bit
\* value at offset 4, hdr.format, hdr.tracks and hdr.division are the
\* big-endian 16-bit values at offsets 8, 10 and 12, and ppq is bits 14-0
\* of division when bit 15 of division is 0.
C16_HeaderParse ==
    \A t \in Threads :
        IsOpened(t) =>
            LET f == file[t]
                h == midi[t].hdr
            IN  /\ SubSeq(f, 1, 4) = <<77, 84, 104, 100>>
                /\ h.length = ((f[5] * 256 + f[6]) * 256 + f[7]) * 256 + f[8]
                /\ h.format = f[9] * 256 + f[10]
                /\ h.tracks = f[11] * 256 + f[12]
                /\ h.division = f[13] * 256 + f[14]
                /\ f[13] < 128 => midi[t].ppq = (f[13] % 128) * 256 + f[14]

\* C16 witness: length 6, format 1, tracks 2, division 480 opened as
\* format 1, tracks 2, ppq 480.
C16_Witness ==
    /\ IsOpened(1)
    /\ SubSeq(file[1], 5, 14) = <<0, 0, 0, 6, 0, 1, 0, 2, 1, 224>>
    /\ midi[1].hdr = [length |-> 6, format |-> 1, tracks |-> 2, division |-> 480]
    /\ midi[1].ppq = 480

\* C17: when midi_open returns a non-zero value *midi is NULL, and when it
\* returns 0 *midi is a valid handle.
C17_OpenErrorContract ==
    \A t \in Threads :
        /\ pc[t] = "openfail"
              => (midi[t].retval # 0 /\ midi[t].ptr = "NULL")
        /\ IsOpened(t) => midi[t].ptr = "valid"

\* C18: when midi_open returns an error the file is closed and the handle
\* freed; after midi_open and midi_close the file has been closed exactly
\* once; the file is never open without a handle the caller can close.
C18_SourceRelease ==
    \A t \in Threads :
        /\ pc[t] = "openfail"
              => (~ midi[t].isopen /\ midi[t].ptr # "valid")
        /\ pc[t] = "closed"
              => (~ midi[t].isopen /\ midi[t].closes = 1)
        /\ midi[t].isopen => midi[t].ptr = "valid"
        /\ midi[t].closes <= 1

\* C19: after a successful midi_open on a header of declared length
\* L >= 6, trk_offset is 8 + L.
C19_HeaderPaddingSkip ==
    \A t \in Threads :
        (IsOpened(t) /\ midi[t].hdr.length >= 6)
            => midi[t].trk_offset = 8 + midi[t].hdr.length

(***************************************************************************)
(* Claims about track selection                                            *)
(***************************************************************************)

\* the bytes of f from p up to end are whole events: each decodes, with the
\* running command the events before it in the chunk left, from bytes that
\* were all read, and the last one ends at end
RECURSIVE WholeEvents(_, _, _, _)
WholeEvents(f, p, rc, end) ==
    IF p >= end
    THEN p = end
    ELSE LET r == midi_parse_event(f, p, rc, 0)
         IN  /\ r.ok
             /\ r.asked = r.pos - p
             /\ WholeEvents(f, r.pos, r.rc, end)

\* n track chunks lie one after the other from position p to the end of
\* the file f, each one in the file in full and made of one or more whole
\* events
RECURSIVE ChunksFrom(_, _, _)
ChunksFrom(f, p, n) ==
    IF n = 0
    THEN p = Len(f)
    ELSE LET h == midi_parse_track_hdr(f, p)
         IN  /\ h.ok
             /\ h.hdr.size > 0
             /\ h.pos + h.hdr.size <= Len(f)
             /\ WholeEvents(f, h.pos, 0, h.pos + h.hdr.size)
             /\ ChunksFrom(f, h.pos + h.hdr.size, n - 1)

\* a well-formed file: a header chunk of declared length L >= 6, present in
\* full, followed by exactly hdr.tracks well-formed track chunks
WellFormed(f) ==
    LET h == midi_parse_hdr(f, 0)
    IN  /\ h.ok
        /\ h.hdr.length >= 6
        /\ 8 + h.hdr.length <= Len(f)
        /\ ChunksFrom(f, 8 + h.hdr.length, h.hdr.tracks)

\* C20: on a well-formed file, for every index i below hdr.tracks,
\* midi_get_track(midi, i) returns the track decoded from the (i+1)-th
\* chunk after the header chunk, found by skipping i chunks by their
\* declared lengths, with num = i.
C20_TrackSelection ==
    \A t \in Threads :
        (midi[t].retval = 0 /\ pc[t] \in {"ready", "parsing", "crashed", "closed"}
         /\ WellFormed(file[t]))
            => /\ pc[t] = "crashed" => trk[t].num >= midi[t].hdr.tracks
               /\ \A k \in DOMAIN hist[t] :
                     hist[t][k].idx < midi[t].hdr.tracks =>
                        LET first == 8 + midi[t].hdr.length
                            at    == SkipTracks(file[t], first, hist[t][k].idx)
                            want  == midi_get_track(file[t], first,
                                                    hist[t][k].idx, 0, 0).ret
                        IN  /\ hist[t][k].ret = want
                            /\ want.kind = "track"
                            /\ want.track.num = hist[t][k].idx
                            /\ want.track.hdr
                                  = midi_parse_track_hdr(file[t], at.pos).hdr

(***************************************************************************)
(* Claims about track headers and iteration                                *)
(***************************************************************************)

\* the chunk asked for with index i on the handle of thread t, or one of
\* the i chunks before it, carries a tag other than "MTrk"
BadMagic(t, i) ==
    TrackStart(file[t], midi[t].trk_offset, i).errmsg = "track has bad magic."

\* C21: midi_get_track(midi, i) returns NULL whenever the tag of the chunk
\* asked for, or of a chunk skipped before it, is not "MTrk", and no event
\* is decoded from such a chunk.
C21_TrackBadMagic ==
    \A t \in Threads :
        /\ \A k \in DOMAIN hist[t] :
              BadMagic(t, hist[t][k].idx) => hist[t][k].ret = RetNull
        /\ pc[t] \in {"parsing", "crashed"} => ~ BadMagic(t, trk[t].num)

(***************************************************************************)
(* Claims about single events                                              *)
(***************************************************************************)

\* the events of evSrc whose encoding starts where the last call started
\* and lies in the file with all its bytes
EvWholeAt ==
    { k \in DOMAIN evSrc :
        /\ Len(EvBytes(SubSeq(evSrc, 1, k - 1))) = evOut.start
        /\ Len(EvBytes(SubSeq(evSrc, 1, k))) <= Len(evIn) }

\* the last call returned a channel event
IsChannelEvent ==
    evOut.called /\ evOut.ok /\ evOut.event.type = MIDI_EVENT_TYPE_EVENT

(***************************************************************************)
(* Claims about iteration                                                  *)
(***************************************************************************)

\* C22: after midi_iter_track(trk), called at any point of a walk, the
\* cursor is at the first event again, and every walk that has_next/next
\* carry to the end yields the complete event sequence of the track, the
\* same as every walk before it.
C22_RestartableIteration ==
    istate = "live" =>
        /\ walk = <<>> => cur = TrackHead(itrk)
        /\ \A i \in DOMAIN walks : walks[i] = itrk.list
        /\ cur = 0 => walk = itrk.list

\* C22 witness: a track of two or more events walked to its end, restarted,
\* walked part of the way, restarted again and walked to its end.
C22_Witness ==
    /\ istate = "live"
    /\ Len(itrk.list) >= 2
    /\ Len(walks) = 2
    /\ restartAt \in 1 .. Len(itrk.list) - 1
    /\ cur = 0
    /\ walk = itrk.list

\* C23: successive midi_track_next calls return the events in the order
\* they are encoded in the chunk; after a restart midi_track_has_next is
\* true exactly as long as fewer than trk->events events were returned;
\* the cursor is always a node of the list or NULL.
C23_IterationOrder ==
    istate = "live" =>
        /\ cur \in 0 .. Len(itrk.list)
        /\ Len(walk) <= itrk.events
        /\ walk = SubSeq(itrk.list, 1, Len(walk))
        /\ hasNext.called => (hasNext.value <=> Len(walk) < itrk.events)
        /\ cur # 0 => cur = Len(walk) + 1

\* C23 witness: after a restart, all three events of a track were returned
\* and midi_track_has_next then answered false.
C23_Witness ==
    /\ istate = "live"
    /\ itrk.events = 3
    /\ restartAt >= 0
    /\ Len(walk) = 3
    /\ hasNext.called
    /\ ~ hasNext.value

\* C31: midi_iter_track, midi_track_has_next and midi_track_next leave the
\* track header, the event count, the links of the list and the fields and
\* data bytes of every event as midi_get_track returned them; apart from
\* trk->cur the track is the same after any number of calls.
C31_IterationFrame ==
    istate = "live" => itrk = itrk0

\* C31 witness: on a track with a meta event that carries data bytes, the
\* three functions were all called: a restart in the middle of a walk, then
\* midi_track_next past the meta event, then midi_track_has_next.
C31_Witness ==
    /\ istate = "live"
    /\ restartAt >= 1
    /\ Len(walk) >= 1
    /\ hasNext.called
    /\ \E i \in 1 .. Len(walk) :
          /\ walk[i].type = MIDI_EVENT_TYPE_META
          /\ Len(walk[i].data) > 0
    /\ itrk0.events >= 2

\* C24: a channel event has size 1 and one data byte when its command is
\* Program-Change or Channel-Pressure, and size 2 and two data bytes
\* otherwise, whether the command came from a status byte or from running
\* status.
C24_ArgumentCount ==
    IsChannelEvent =>
        LET n == IF evOut.event.cmd \in {MIDI_EVENT_PROGRAM_CHANGE,
                                         MIDI_EVENT_CHANNEL_PRESSURE}
                 THEN 1 ELSE 2
        IN  /\ evOut.event.size = n
            /\ Len(evOut.event.data) = n
            /\ \A k \in EvWholeAt :
                  LET tl == evSrc[k].tail
                  IN  /\ tl[1] >= 128 /\ Len(tl) = n + 1 =>
                           evOut.event.data = SubSeq(tl, 2, n + 1)
                      /\ tl[1] < 128 /\ Len(tl) = n =>
                           evOut.event.data = tl

\* C24 witness: a Channel-Pressure event continued by running status, its
\* one data byte being the byte in status position, after a two-byte delta.
C24_Witness ==
    /\ IsChannelEvent
    /\ evOut.event.cmd = MIDI_EVENT_CHANNEL_PRESSURE
    /\ evOut.rcBefore = MIDI_EVENT_CHANNEL_PRESSURE
    /\ evOut.event.data = <<7>>
    /\ evOut.event.delta_time = 200
    /\ evOut.start > 0

\* C25: a meta event that lies in the file with all its bytes (0xFF, type,
\* length n, n data bytes) is returned as a META event with cmd = type,
\* size = n, chan = 0, the n data bytes in order and the delta time
\* encoded before it, and adds the delta time's width + 3 + n to the
\* consumed-byte count.
C25_MetaDecode ==
    evOut.called =>
        \A k \in EvWholeAt :
            LET it == evSrc[k]
                n  == it.tail[3]
            IN  it.tail[1] = 255 =>
                  /\ evOut.ok
                  /\ evOut.event.type = MIDI_EVENT_TYPE_META
                  /\ evOut.event.cmd = it.tail[2]
                  /\ evOut.event.size = n
                  /\ evOut.event.chan = 0
                  /\ evOut.event.data = SubSeq(it.tail, 4, 3 + n)
                  /\ evOut.event.delta_time = it.delta
                  /\ evOut.nbytes = Len(VlqEncode(it.delta)) + 3 + n

\* C25 witness: FF 01 02 41 42 after a two-byte delta time, as the second
\* event of the file.
C25_Witness ==
    /\ evOut.called
    /\ evOut.start > 0
    /\ evOut.event.type = MIDI_EVENT_TYPE_META
    /\ evOut.event.cmd = 1
    /\ evOut.event.data = <<65, 66>>
    /\ evOut.event.delta_time = 200
    /\ evOut.nbytes = 7

\* C27: every channel event midi_parse_event returns has a command in
\* 0x8..0xE, whatever the status byte 0x00..0xFE.
C27_CommandRange ==
    IsChannelEvent => evOut.event.cmd \in 8 .. 14

(***************************************************************************)
(* Claims about the division field                                         *)
(***************************************************************************)

\* the file of thread t starts with a whole header chunk whose division has
\* bit 15 set and a frame code other than -24, -25, -29 and -30
UnsupportedSmpte(t) ==
    /\ Len(file[t]) >= MIDI_HEADER_SIZE
    /\ SubSeq(file[t], 1, 4) = MIDI_HEADER_MAGIC
    /\ file[t][13] >= 128
    /\ file[t][13] \notin {256 - 24, 256 - 25, 256 - 29, 256 - 30}

\* C28: a header whose division has bit 15 set and a frame code other than
\* -24, -25, -29, -30 is not refused: midi_open does not return EINVAL for
\* it, it succeeds whenever the file can be opened and positioned, and the
\* resolution it stores is 0.
C28_UnsupportedSmpte ==
    \A t \in Threads :
        pc[t] \notin {"off", "start"} /\ UnsupportedSmpte(t) =>
            /\ midi[t].retval # EINVAL
            /\ midi[t].ptr = "valid" => midi[t].ppq = 0
            /\ pc[t] = "openfail" => midi[t].retval \in {ENOMEM} \cup
                                        { ErrnoOf(env) : env \in OpenEnvs }

\* C28 witness: division 0xFF28 opened with return value 0 and resolution 0,
\* and a track fetched from the handle.
C28_Witness ==
    /\ UnsupportedSmpte(1)
    /\ IsOpened(1)
    /\ midi[1].hdr.division = 65320
    /\ midi[1].ppq = 0
    /\ ret[1].kind = "track"

(***************************************************************************)
(* Claims about rests                                                      *)
(***************************************************************************)

\* C29: for a key outside [24,108) NumNotaiton_KeyToNote returns the
\* all-zero note, for a key outside [48,96) NumNotaiton_KeyToNoteSimp
\* returns the all-zero note, and both decoders return 0 for every note of
\* degree 0, whatever its other fields.
C29_OutOfDomainRests ==
    /\ "KeyToNote" \in cdone /\ (key < 24 \/ key >= 108) => note = NoteZero
    /\ "KeyToNoteSimp" \in cdone /\ (key < 48 \/ key >= 96) =>
          snote = NoteSimpZero
    /\ "NoteToKeyNote" \in cdone /\ note.note = 0 => keyOut = 0
    /\ "NoteSimpToKeyNote" \in cdone /\ snote.note = 0 => skeyOut = 0

\* C29 witness: a caller's note of degree 0 with sharp, octave and the
\* remaining bits set, decoded to key 0 by both decoders.
C29_Witness ==
    /\ cdone = {"caller", "NoteToKeyNote", "NoteSimpToKeyNote"}
    /\ note.note = 0 /\ note.sharp = 1 /\ note.octaves = 3 /\ note.oct2 = 1
    /\ note.dynamics = 2
    /\ snote.note = 0 /\ snote.sharp = 1 /\ snote.octaves = 3
    /\ keyOut = 0
    /\ skeyOut = 0

(***************************************************************************)
(* Claims about the score converter                                        *)
(***************************************************************************)

\* the last event the loop over track 0 handled is a tempo meta event with
\* three data bytes
LastIsTempo ==
    /\ conv.last.type = MIDI_EVENT_TYPE_META
    /\ conv.last.cmd = 81
    /\ conv.last.size = 3

\* C26: once the converter has handled a meta event 0x51 with three data
\* bytes in its loop over track 0, its tempo is data[0] * 65536 + data[1] *
\* 256 + data[2]; FF 51 03 07 A1 20 gives 500000.
C26_TempoDecode ==
    LastIsTempo =>
        /\ conv.tempo = conv.last.data[1] * 65536 + conv.last.data[2] * 256
                           + conv.last.data[3]
        /\ conv.last.data = <<7, 161, 32>> => conv.tempo = 500000

\* C26 witness: FF 51 03 01 02 03 as the last tempo event of track 0 of a
\* file whose conversion ran to the end: tempo 66051.
C26_Witness ==
    /\ LastIsTempo
    /\ conv.last.data = <<1, 2, 3>>
    /\ conv.tempo = 66051
    /\ conv.pc = "done"
    /\ conv.written

\* the Note-Off channel events of the note track, by their place in it
NoteOffs ==
    { i \in DOMAIN conv.notes :
        /\ conv.notes[i].type = MIDI_EVENT_TYPE_EVENT
        /\ conv.notes[i].cmd = 8 }

\* C30: when midi_to_score has written the score, bytes 8-9 hold, most
\* significant byte first, the number of Note-Off channel events of the
\* note track, and the score holds exactly that many note bytes, stored
\* one after the other from offset 12 in the order of their events, one
\* for each Note-Off and none for any other event.
C30_ScoreSizeField ==
    conv.pc = "done" /\ conv.written =>
        LET n == Cardinality(NoteOffs)
        IN  /\ conv.score[8] * 256 + conv.score[9] = n
            /\ Len(conv.emitted) = n
            /\ \A k \in 1 .. Len(conv.emitted) :
                  LET w == conv.emitted[k]
                  IN  /\ w[1] = 12 + (k - 1)
                      /\ w[1] < ScoreSize
                      /\ conv.score[w[1]] = w[2]
                      /\ w[3] \in NoteOffs
                      /\ k > 1 => conv.emitted[k - 1][3] < w[3]
                      /\ w[2] % 16 =
                            PackSimp(NumNotaiton_KeyToNoteSimp(
                                       conv.notes[w[3]].data[1], 0)) % 16
            /\ \A i \in (12 + n) .. (ScoreSize - 1) : conv.score[i] = 0

(***************************************************************************)
(* Claims about termination and cleanup                                    *)
(***************************************************************************)

\* C32: the event loop of midi_parse_track ends on every file: a thread
\* that is inside the loop leaves it (midi_get_track returns, or the
\* process dies), and every midi_parse_event call the loop is about to make
\* either fails or adds at least 1 to bytes.
C32_DecodingTerminates ==
    /\ [](\A t \in Threads :
            pc[t] = "parsing" =>
                \A u \in Garbage :
                    LET r == midi_parse_event(file[t], fpos[t], running_cmd, u)
                    IN  r.ok => r.nbytes >= 1)
    /\ \A t \in Threads : (pc[t] = "parsing") ~> (pc[t] # "parsing")

\* C32 witness: midi_get_track returned a track after the loop had gone on
\* at the end of the file: the last midi_parse_event call read no byte at
\* all and the track has three or more events.
C32_Witness ==
    \E t \in Threads :
        /\ pc[t] = "ready"
        /\ ret[t].kind = "track"
        /\ ret[t].track.events >= 3
        /\ ev[t].valid
        /\ ev[t].ok
        /\ ev[t].got = 0
        /\ ev[t].posAfter = Len(file[t])
        /\ bytes[t] > Len(file[t]) - BodyStart(t)

\* midi_get_track of thread t has just failed after malloc'ing the track:
\* midi_parse_track returned false and midi_free_track(track) ran
CleanupRan(t) ==
    \/ pc[t] = "crashed"
    \/ /\ pc[t] = "ready"
       /\ ret[t] = RetNull
       /\ hist[t] # <<>>
       /\ TrackStart(file[t], midi[t].trk_offset,
                     hist[t][Len(hist[t])].idx).stage # "skipfail"

\* C33: whenever midi_get_track fails after allocating the track,
\* midi_free_track finds trk->head assigned (the list holds the events
\* decoded so far and ends in NULL), and the process survives the walk.
C33_SafeCleanup ==
    \A t \in Threads :
        CleanupRan(t) => (trk[t].list # <<>> /\ pc[t] # "crashed")

\* C34: every note byte midi_to_score stores goes to score[position] with
\* position below the 512 bytes of the score, whatever the number of
\* Note-Off events of the note track; no byte is stored past the array.
C34_ScoreBufferBound ==
    /\ conv.spilled = 0
    /\ \A k \in DOMAIN conv.emitted : conv.emitted[k][1] < ScoreSize

(***************************************************************************)
(* Claims about the encoders                                               *)
(***************************************************************************)

\* accumulated delta times of a Note-Off, in ticks, at 480 ticks per quarter
\* note: none, a 16th, an eighth, a quarter, a half and a whole note
LengthTicks == {0, 120, 240, 480, 960, 1920}

\* the length classes midi_delta_time_to_length returns for them
LengthClasses == { midi_delta_time_to_length(d, 480) : d \in LengthTicks }

\* C35: the length class handed to NumNotaiton_KeyToNoteSimp can be
\* recovered from the note it returns: for a key of [48,96), no other of
\* the five classes midi_delta_time_to_length returns gives a note with the
\* same length field.
C35_LengthClassPreserved ==
    ("KeyToNoteSimp" \in cdone /\ key \in KEY_PIANO_48 .. (KEY_PIANO_96 - 1)
        /\ length \in LengthClasses)
        => \A l2 \in LengthClasses \ {length} :
              NumNotaiton_KeyToNoteSimp(key, l2).length # snote.length

\* C36: on [24,108) NumNotaiton_KeyToNote gives different keys notes that
\* differ in degree, sharp, oct2 or octaves, and on [48,96)
\* NumNotaiton_KeyToNoteSimp gives different keys notes that differ in
\* degree, sharp or octaves; the degree is one of 1..7 and a degree of 3
\* or 7 never comes with a sharp.
C36_EncodingInjective ==
    /\ ("KeyToNote" \in cdone /\ key \in KEY_PIANO_24 .. (KEY_PIANO_108 - 1))
          => /\ note.note \in 1 .. 7
             /\ note.note \in {3, 7} => note.sharp = 0
             /\ \A k2 \in (KEY_PIANO_24 .. (KEY_PIANO_108 - 1)) \ {key} :
                   \A g \in NoteGarbage :
                      LET n2 == NumNotaiton_KeyToNote(k2, length, dot, g)
                      IN  <<n2.note, n2.sharp, n2.oct2, n2.octaves>>
                             # <<note.note, note.sharp, note.oct2, note.octaves>>
    /\ ("KeyToNoteSimp" \in cdone /\ key \in KEY_PIANO_48 .. (KEY_PIANO_96 - 1))
          => /\ snote.note \in 1 .. 7
             /\ snote.note \in {3, 7} => snote.sharp = 0
             /\ \A k2 \in (KEY_PIANO_48 .. (KEY_PIANO_96 - 1)) \ {key} :
                   LET n2 == NumNotaiton_KeyToNoteSimp(k2, length)
                   IN  <<n2.note, n2.sharp, n2.octaves>>
                          # <<snote.note, snote.sharp, snote.octaves>>

\* C36 witness: both encoders have returned for key 85, the C sharp of the
\* highest octave of [48,96): degree 1 with a sharp in both notes.
C36_Witness ==
    /\ {"KeyToNote", "KeyToNoteSimp"} \subseteq cdone
    /\ key = 85
    /\ note.note = 1
    /\ note.sharp = 1
    /\ note.oct2 = 0
    /\ snote.sharp = 1
    /\ snote.octaves = note.octaves
====
